---- MODULE Spec2Model ----
(***************************************************************************)
(* Shopify operator scripts: the variant detector's batch run              *)
(* (tools/ai_variant_detector.py: run_analysis, process_product,           *)
(* analyze_product_with_gemini, generate_report, main), its HTTP wrapper    *)
(* shopify_request, and the cleanup script's api_put                        *)
(* (hide_wholesale_and_clean_titles.py).                                    *)
(***************************************************************************)
EXTENDS Integers, Sequences, FiniteSets, TLC

(***************************************************************************)
(* Program constants (tools/ai_variant_detector.py, Configuration).        *)
(***************************************************************************)
DEFAULT_CONFIDENCE_THRESHOLD == 85
BATCH_SIZE == 50
DEFAULT_RETRIES == 3
DEFAULT_RETRY_AFTER == 2
API_PUT_ATTEMPTS == 4
SHOPIFY_RATE_LIMIT_MS == 550

(***************************************************************************)
(* Bounds of the model.                                                    *)
(***************************************************************************)
MaxProducts == 2
MaxRetries == 3
MaxCalls == 2

\* ------------------------------------------------------------------------
\* JSON values as the detector sees them.  Every value is a record of the
\* same shape so that values of different JSON types can be compared:
\*   type          "object" | "list" | "string" | "number" | "null"
\*                 | "invalid" (json.loads raises JSONDecodeError)
\*                 | "raise"   (an exception leaves the function)
\*   error         "absent" | "" | a message        (dict key "error")
\*   has_variants  "absent" | "true" | "false"      (dict key "has_variants")
\*   confidence    -1 (absent) | 0..100             (dict key "confidence")
\*   options       "absent" | "empty" | "ok" | "noname"  (dict key "options":
\*                 a list of {"name", "values"} entries, or entries that
\*                 lack the "name" key)
\*   product_id    0 (absent) | an id               (set by process_product)
\* ------------------------------------------------------------------------
Value(t, e, h, c, o) ==
    [type |-> t, error |-> e, has_variants |-> h, confidence |-> c,
     options |-> o, product_id |-> 0]

NonObject(t) == Value(t, "absent", "absent", -1, "absent")

ErrorDict(msg) == Value("object", msg, "false", -1, "absent")

Raise(exc) == Value("raise", exc, "absent", -1, "absent")

ConfidenceSamples == {-1, 0, DEFAULT_CONFIDENCE_THRESHOLD - 1,
                      DEFAULT_CONFIDENCE_THRESHOLD, 100}

\* The JSON objects a Gemini answer can parse to.
GeminiObjects ==
    { Value("object", e, h, c, o) :
        e \in {"absent", "", "model refused"},
        h \in {"absent", "true", "false"},
        c \in ConfidenceSamples,
        o \in {"absent", "empty", "ok", "noname"} }

\* Valid JSON that is not an object.
GeminiNonObjects == { NonObject(t) : t \in {"list", "string", "number", "null"} }

\* Python truthiness of r.get("error") and r.get("has_variants", False).
Truthy(field) == field \notin {"absent", "", "false", "empty"}

\* ------------------------------------------------------------------------
\* The text of a Gemini answer: optional surrounding whitespace, an optional
\* markdown code fence (closed at the very end, or followed by more prose),
\* and the payload between them.
\*   payload: "" | "garbage" | a JSON value
\* ------------------------------------------------------------------------
EmptyPayload == NonObject("empty")
GarbagePayload == NonObject("garbage")

Payloads == {EmptyPayload, GarbagePayload} \cup GeminiObjects \cup GeminiNonObjects

Texts == [pad : BOOLEAN, fence : {"none", "closed", "trailing"}, payload : Payloads]

\* str.strip(): the surrounding whitespace goes.
Strip(text) == [text EXCEPT !.pad = FALSE]

\* `not text_response.strip()`: nothing but whitespace.
IsBlank(text) == text.fence = "none" /\ text.payload = EmptyPayload

\* L404-407: when the stripped text starts with ``` the opening fence is
\* removed, and the closing fence only when it ends the text.
StripFences(text) ==
    IF text.fence = "closed" THEN [text EXCEPT !.fence = "none"]
    ELSE text  \* "trailing": the opening fence goes, "``` prose" stays

\* json.loads(json_text): the payload's value when the text is exactly one
\* JSON value, JSONDecodeError otherwise.
json_loads(json_text) ==
    IF json_text.fence # "none" THEN NonObject("invalid")
    ELSE IF json_text.payload \in {EmptyPayload, GarbagePayload}
         THEN NonObject("invalid")
    ELSE json_text.payload

\* ------------------------------------------------------------------------
\* The HTTP answer of the Gemini endpoint.
\*   outcome  "exception" (requests.post raises) | "response"
\*   status   HTTP status of a response
\*   body     "notjson" | "nocandidates" | "badparts" | "candidates"
\*   text     the concatenated text parts of candidates[0]
\* ------------------------------------------------------------------------
BlankText == [pad |-> FALSE, fence |-> "none", payload |-> EmptyPayload]

GeminiStatuses == {200, 400, 429, 500}

GeminiResponses ==
    {[outcome |-> "exception", status |-> 0, body |-> "notjson", text |-> BlankText]}
    \cup {[outcome |-> "response", status |-> s, body |-> "notjson", text |-> BlankText] :
            s \in GeminiStatuses}
    \cup {[outcome |-> "response", status |-> 200, body |-> b, text |-> BlankText] :
            b \in {"nocandidates", "badparts"}}
    \cup {[outcome |-> "response", status |-> 200, body |-> "candidates", text |-> t] :
            t \in Texts}

\* analyze_product_with_gemini (L328-419).  api_key_set: GOOGLE_API_KEY.
analyze_product_with_gemini_Mutant(api_key_set, resp) ==
    \* the JSONDecodeError handler is missing: the parse error propagates
    IF ~api_key_set THEN ErrorDict("GOOGLE_API_KEY not set")
    ELSE IF resp.outcome = "exception" THEN ErrorDict("Gemini request failed")
    ELSE IF resp.status # 200 THEN ErrorDict("Gemini API error")
    ELSE IF resp.body = "notjson" THEN Raise("JSONDecodeError")
    ELSE IF resp.body = "nocandidates" THEN ErrorDict("No response candidates from Gemini")
    ELSE IF resp.body = "badparts" THEN ErrorDict("Gemini request failed")
    ELSE IF IsBlank(Strip(resp.text)) THEN ErrorDict("Empty response from Gemini")
    ELSE LET json_text == IF Strip(resp.text).fence # "none"
                          THEN StripFences(Strip(resp.text))
                          ELSE Strip(resp.text)
             parsed == json_loads(json_text)
         IN  IF parsed.type = "invalid" THEN Raise("JSONDecodeError")
             ELSE parsed

analyze_product_with_gemini(api_key_set, resp) ==
    IF ~api_key_set THEN ErrorDict("GOOGLE_API_KEY not set")                 \* L333
    ELSE IF resp.outcome = "exception" THEN ErrorDict("Gemini request failed") \* L418
    ELSE IF resp.status # 200 THEN ErrorDict("Gemini API error")             \* L380
    ELSE IF resp.body = "notjson"                                            \* L387, L412
         THEN ErrorDict("Failed to parse Gemini JSON response")
    ELSE IF resp.body = "nocandidates"                                       \* L389
         THEN ErrorDict("No response candidates from Gemini")
    ELSE IF resp.body = "badparts" THEN ErrorDict("Gemini request failed")   \* L393, L418
    ELSE IF IsBlank(Strip(resp.text)) THEN ErrorDict("Empty response from Gemini") \* L399
    ELSE LET json_text == IF Strip(resp.text).fence # "none"                 \* L403-407
                          THEN StripFences(Strip(resp.text))
                          ELSE Strip(resp.text)
             parsed == json_loads(json_text)                                 \* L409
         IN  IF parsed.type = "invalid"                                      \* L412
             THEN ErrorDict("Failed to parse Gemini JSON response")
             ELSE parsed                                                     \* L410

\* ------------------------------------------------------------------------
\* A product of the catalogue as the run sees it:
\*   id        the Shopify product id
\*   images    "none" (no image) | "undownloadable" (no download succeeds)
\*             | "ok" (at least one image downloads)
\*   response  the Gemini endpoint's answer for this product
\* ------------------------------------------------------------------------
WithId(value, product_id) == [value EXCEPT !.product_id = product_id]

\* process_product (L699-774).
process_product(product, verbose, api_key_set) ==
    IF product.images = "none"                                           \* L713-723
    THEN WithId(Value("object", "absent", "false", 100, "absent"), product.id)
    ELSE IF product.images = "undownloadable"                            \* L728-738
    THEN WithId(ErrorDict("Failed to download product images"), product.id)
    ELSE LET analysis == analyze_product_with_gemini(api_key_set, product.response) \* L744
         IN  IF analysis.type = "raise" THEN analysis
             \* L750: analysis["product_id"] = ... on a list, str, number or None
             ELSE IF analysis.type # "object" THEN Raise("TypeError")
             \* L767-770: opt['name'] of an option entry without "name"
             ELSE IF /\ verbose
                     /\ ~Truthy(analysis.error)
                     /\ Truthy(analysis.has_variants)
                     /\ analysis.options = "noname"
                  THEN Raise("KeyError")
             ELSE WithId(analysis, product.id)                           \* L750-774

\* r.get("confidence", 0)
GetConfidence(r) == IF r.confidence = -1 THEN 0 ELSE r.confidence

\* The list generate_report puts a result in (L623-631).
ReportListOf_Mutant(r, threshold) ==
    \* has_variants is looked at before error
    IF ~Truthy(r.has_variants) THEN "no_variants"
    ELSE IF Truthy(r.error) THEN "errors"
    ELSE IF GetConfidence(r) >= threshold THEN "auto_apply"
    ELSE "needs_review"

ReportListOf(r, threshold) ==
    IF Truthy(r.error) THEN "errors"                                     \* L624
    ELSE IF ~Truthy(r.has_variants) THEN "no_variants"                   \* L626
    ELSE IF GetConfidence(r) >= threshold THEN "auto_apply"              \* L628
    ELSE "needs_review"                                                  \* L630

ReportList(results, threshold, name) ==
    SelectSeq(results, LAMBDA r : ReportListOf(r, threshold) = name)

\* generate_report (L607-642).
generate_report(results, threshold) ==
    LET auto_apply   == ReportList(results, threshold, "auto_apply")
        needs_review == ReportList(results, threshold, "needs_review")
        no_variants  == ReportList(results, threshold, "no_variants")
        errors       == ReportList(results, threshold, "errors")
    IN  [threshold      |-> threshold,
         total_analyzed |-> Len(results),
         auto_apply     |-> auto_apply,
         needs_review   |-> needs_review,
         no_variants    |-> no_variants,
         errors         |-> errors,
         summary        |-> [total_analyzed     |-> Len(results),
                             variants_detected  |-> Len(auto_apply) + Len(needs_review),
                             auto_apply_count   |-> Len(auto_apply),
                             needs_review_count |-> Len(needs_review),
                             no_variants_count  |-> Len(no_variants),
                             error_count        |-> Len(errors)]]

EmptyReport == generate_report(<< >>, 0)

\* ========================================================================
\* State
\* ========================================================================
VARIABLES
    \* ai_variant_detector.main / run_analysis / apply_variants
    products,        \* main's list of products to analyze
    args,            \* the parsed command line
    progress_file,   \* variant_detection_progress.json on disk
    processed_ids,   \* run_analysis: set of processed product ids
    results,         \* run_analysis: list of results
    remaining,       \* run_analysis: products still to process
    i,               \* run_analysis: loop index
    report,          \* main: generate_report's return value
    report_file,     \* whether the report file has been written
    items_to_apply,  \* apply_variants: the report entries to apply
    k,               \* apply_variants: loop index
    apply_state,     \* "not_called" | "running" | "returned"
    puts,            \* product ids a PUT products/<id>.json was sent for
    posts,           \* product ids a POST inventory_levels/set.json was sent for
    create_calls,    \* history: the items create_variants_for_product was called with
    pc,              \* position of the running program
    raised,          \* the exception that ended the program, "" when none
    calls,           \* history: product id -> number of process_product calls
    saves,           \* history: processed_ids of each save_progress of the run
    loaded_ids,      \* history: processed_ids the file held when the run began
    \* one call of process_product / analyze_product_with_gemini
    product,         \* the product analysed
    api_key_set,     \* whether GOOGLE_API_KEY is set
    analysis,        \* analyze_product_with_gemini's return value
    \* one call of shopify_request / api_put
    request,         \* the call's arguments
    attempt,         \* the retry loop's variable
    responses,       \* history: the answer of every HTTP attempt of the call
    sleeps,          \* history: the seconds of every time.sleep of the call
    retval,          \* the value the call returned
    \* the clock of shopify_request, in ms, saturating at SHOPIFY_RATE_LIMIT_MS
    since_stamp,     \* time.time() * 1000 - _last_shopify_request
    since_request,   \* history: time since the last HTTP request was sent
    min_gap,         \* history: the shortest time between two successive requests
    call_no,         \* history: the number of calls of shopify_request begun
    \* one run of an importer script (tools/*_importer.py, fix_cloud_yhs_images.py)
    script,          \* the script that runs
    flags,           \* its command line, and which credentials are set
    selected,        \* the products the run works on
    idx,             \* the number of products the loop of main has handled
    sent,            \* history: the requests sent to Shopify
    store,           \* per product: the status and the images it has in the store
    \* one call of a pure function
    input,           \* the arguments
    output           \* the value returned

runVars == <<products, args, progress_file, processed_ids, results, remaining, i,
             report, report_file, items_to_apply, k, apply_state, puts, posts, create_calls,
             calls, saves, loaded_ids>>

geminiVars == <<product, api_key_set, analysis>>

httpVars == <<request, attempt, responses, sleeps, retval>>

clockVars == <<since_stamp, since_request, min_gap, call_no>>

importVars == <<script, flags, selected, idx, sent, store>>

fnVars == <<input, output>>

vars == <<runVars, geminiVars, httpVars, clockVars, importVars, fnVars, pc, raised>>

\* ------------------------------------------------------------------------
\* Inputs of a run
\* ------------------------------------------------------------------------
Text(payload) == [pad |-> FALSE, fence |-> "none", payload |-> payload]

Answer(text) == [outcome |-> "response", status |-> 200, body |-> "candidates", text |-> text]

RequestFailed ==
    [outcome |-> "exception", status |-> 0, body |-> "notjson", text |-> BlankText]

\* Representative Gemini answers for the products of a batch.
RunResponses ==
    { RequestFailed,
      Answer(Text(GarbagePayload)),
      Answer(Text(NonObject("list"))),
      Answer(Text(Value("object", "absent", "true", 100, "ok"))),
      Answer([pad |-> TRUE, fence |-> "closed",
              payload |-> Value("object", "absent", "true", 0, "ok")]),
      Answer(Text(Value("object", "absent", "true", 100, "noname"))) }

ProductsWithId(id, answers) ==
    {[id |-> id, images |-> "none", response |-> RequestFailed],
     [id |-> id, images |-> "undownloadable", response |-> RequestFailed]}
    \cup {[id |-> id, images |-> "ok", response |-> r] : r \in answers}

\* Catalogues of n products with ids 1..n.
Catalogues(n, answers) ==
    { c \in [1..n -> UNION {ProductsWithId(id, answers) : id \in 1..n}] :
        \A id \in 1..n : c[id].id = id }

\* A homogeneous catalogue: every product has the same images and answer.
Uniform(n, images, response) ==
    [id \in 1..n |-> [id |-> id, images |-> images, response |-> response]]

LargeCatalogues ==
    { Uniform(n, "ok", r) :
        n \in {BATCH_SIZE + 1, 2 * BATCH_SIZE},
        r \in {RequestFailed, Answer(Text(Value("object", "absent", "true", 100, "ok")))} }

\* Ascending sequence of a finite set of integers.
RECURSIVE SortedSeq(_)
SortedSeq(S) ==
    IF S = {} THEN << >>
    ELSE LET m == CHOOSE x \in S : \A y \in S : x <= y
         IN  <<m>> \o SortedSeq(S \ {m})

AbsentFile == [exists |-> FALSE, processed_ids |-> {}, results |-> << >>]

\* A progress file an earlier, interrupted run left behind: one result for
\* each processed id.
LeftFile(ids) ==
    [exists |-> TRUE, processed_ids |-> ids,
     results |-> [n \in 1..Cardinality(ids) |->
                    WithId(Value("object", "absent", "true", 100, "ok"),
                           SortedSeq(ids)[n])]]

\* main L912-932: --apply-all is no member of the mode group, so it may
\* accompany --analyze as well as --apply.
ArgSets ==
    [resume : BOOLEAN, apply : BOOLEAN, apply_all : BOOLEAN,
     verbose : BOOLEAN, threshold : {DEFAULT_CONFIDENCE_THRESHOLD}]

NoProduct == [id |-> 0, images |-> "none", response |-> RequestFailed]

NoCall == [function |-> "", method |-> "", retries |-> 0]

IdleGemini ==
    /\ product = NoProduct
    /\ api_key_set = TRUE
    /\ analysis = NonObject("null")

\* L87: _last_shopify_request = 0, and no request has been sent.
IdleClock(n) ==
    /\ since_stamp = SHOPIFY_RATE_LIMIT_MS
    /\ since_request = SHOPIFY_RATE_LIMIT_MS
    /\ min_gap = SHOPIFY_RATE_LIMIT_MS
    /\ call_no = n

IdleImport ==
    /\ script = ""
    /\ flags = << >>
    /\ selected = << >>
    /\ idx = 0
    /\ sent = << >>
    /\ store = << >>

IdleFn ==
    /\ input = << >>
    /\ output = << >>

IdleHttp ==
    /\ request = NoCall
    /\ attempt = 0
    /\ responses = << >>
    /\ sleeps = << >>
    /\ retval = "None"
    /\ IdleClock(0)

InitRunWith(catalogue, file, a) ==
    /\ IdleGemini   \* main L948-950: the run has a GOOGLE_API_KEY
    /\ IdleHttp
    /\ IdleImport
    /\ IdleFn
    /\ products = catalogue
    /\ args = a
    /\ progress_file = file
    /\ processed_ids = {}
    /\ results = << >>
    /\ remaining = << >>
    /\ i = 0
    /\ report = EmptyReport
    /\ report_file = FALSE
    /\ items_to_apply = << >>
    /\ k = 0
    /\ apply_state = "not_called"
    /\ puts = << >>
    /\ posts = << >>
    /\ create_calls = << >>
    /\ pc = "main"
    /\ raised = ""
    /\ calls = [id \in 1..Len(catalogue) |-> 0]
    /\ saves = << >>
    /\ loaded_ids = IF file.exists THEN file.processed_ids ELSE {}

\* The state at main L1020: credentials are set, the products are fetched.
Init ==
    \/ \E n \in 0..MaxProducts :
       \E catalogue \in Catalogues(n, RunResponses) :
       \E file \in {AbsentFile} \cup {LeftFile(ids) : ids \in SUBSET (1..MaxProducts)} :
       \E a \in ArgSets :
          InitRunWith(catalogue, file, a)
    \/ \E catalogue \in LargeCatalogues :
       \E file \in {AbsentFile, LeftFile({1})} :
       \E a \in {x \in ArgSets : x.verbose} :
          InitRunWith(catalogue, file, a)

\* ========================================================================
\* ai_variant_detector: main, run_analysis, apply_variants
\* ========================================================================

\* load_progress (L590-595).
load_progress(file) ==
    IF file.exists
    THEN [processed_ids |-> file.processed_ids, results |-> file.results]
    ELSE [processed_ids |-> {}, results |-> << >>]

\* The progress run_analysis starts from (L782).
StartProgress(resume, file) ==
    IF resume THEN load_progress(file)
    ELSE [processed_ids |-> {}, results |-> << >>]

\* remaining = [p for p in products if p["id"] not in processed_ids] (L786).
Remaining_Mutant(prods, ids) == prods

Remaining(prods, ids) == SelectSeq(prods, LAMBDA p : p.id \notin ids)

\* save_progress (L598-601) of the run's processed_ids and results.
SavedFile_Mutant(ids, res) ==
    \* only the current result is written, not the accumulated ids
    [exists |-> TRUE,
     processed_ids |-> IF res = << >> THEN {} ELSE {res[Len(res)].product_id},
     results |-> res]

SavedFile(ids, res) == [exists |-> TRUE, processed_ids |-> ids, results |-> res]

\* (i + 1) % BATCH_SIZE == 0 (L799).
BatchDue_Mutant(n) == (n + 1) % (BATCH_SIZE + 1) = 0

BatchDue(n) == (n + 1) % BATCH_SIZE = 0

\* main L1020-1022: nothing to analyze, sys.exit(0).
NoProducts ==
    /\ pc = "main"
    /\ products = << >>
    /\ pc' = "exited"
    /\ UNCHANGED <<runVars, raised>>
    /\ UNCHANGED <<geminiVars, httpVars, clockVars, importVars, fnVars>>

\* main L1025-1029, run_analysis L782-791.
RunAnalysisBegin ==
    /\ pc = "main"
    /\ products # << >>
    /\ LET progress == StartProgress(args.resume, progress_file)
       IN  /\ processed_ids' = progress.processed_ids
           /\ results' = progress.results
           /\ remaining' = Remaining(products, progress.processed_ids)
    /\ i' = 0
    /\ pc' = "loop"
    /\ UNCHANGED <<products, args, progress_file, report, report_file, items_to_apply,
                   k, apply_state, puts, posts, create_calls, calls, saves, loaded_ids, raised>>
    /\ UNCHANGED <<geminiVars, httpVars, clockVars, importVars, fnVars>>

\* run_analysis L792-796: one product is processed and recorded.
ProcessNext ==
    /\ pc = "loop"
    /\ i < Len(remaining)
    /\ LET p == remaining[i + 1]
           result == process_product(p, args.verbose, api_key_set)
       IN  /\ calls' = [calls EXCEPT ![p.id] = @ + 1]
           /\ IF result.type = "raise"
              THEN /\ pc' = "raised"
                   /\ raised' = "process_product: " \o result.error
                   /\ UNCHANGED <<results, processed_ids>>
              ELSE /\ results' = Append(results, result)
                   /\ processed_ids' = processed_ids \cup {p.id}
                   /\ pc' = "checkpoint"
                   /\ UNCHANGED raised
    /\ UNCHANGED <<products, args, progress_file, remaining, i, report, report_file,
                   items_to_apply, k, apply_state, puts, posts, create_calls, saves, loaded_ids>>
    /\ UNCHANGED <<geminiVars, httpVars, clockVars, importVars, fnVars>>

\* run_analysis L798-804: the periodic save, then the next iteration.
Checkpoint ==
    /\ pc = "checkpoint"
    /\ IF BatchDue(i)
       THEN /\ progress_file' = SavedFile(processed_ids, results)
            /\ saves' = Append(saves, progress_file'.processed_ids)
       ELSE UNCHANGED <<progress_file, saves>>
    /\ i' = i + 1
    /\ pc' = "loop"
    /\ UNCHANGED <<products, args, processed_ids, results, remaining, report,
                   report_file, items_to_apply, k, apply_state, puts, posts, create_calls, calls,
                   loaded_ids, raised>>
    /\ UNCHANGED <<geminiVars, httpVars, clockVars, importVars, fnVars>>

\* run_analysis L806-811: the final save; run_analysis returns.
FinalSave ==
    /\ pc = "loop"
    /\ i = Len(remaining)
    /\ progress_file' = SavedFile(processed_ids, results)
    /\ saves' = Append(saves, progress_file'.processed_ids)
    /\ pc' = "report"
    /\ UNCHANGED <<products, args, processed_ids, results, remaining, i, report,
                   report_file, items_to_apply, k, apply_state, puts, posts, create_calls, calls,
                   loaded_ids, raised>>
    /\ UNCHANGED <<geminiVars, httpVars, clockVars, importVars, fnVars>>

\* main L1031-1040: the report is generated and written; the write can fail.
SaveReport ==
    /\ pc = "report"
    /\ report' = generate_report(results, args.threshold)
    /\ \E written \in BOOLEAN :
          IF written
          THEN /\ report_file' = TRUE
               /\ pc' = "apply"
               /\ UNCHANGED raised
          ELSE /\ pc' = "raised"
               /\ raised' = "open: OSError"
               /\ UNCHANGED report_file
    /\ UNCHANGED <<products, args, progress_file, processed_ids, results, remaining, i,
                   items_to_apply, k, apply_state, puts, posts, create_calls, calls, saves, loaded_ids>>
    /\ UNCHANGED <<geminiVars, httpVars, clockVars, importVars, fnVars>>

\* apply_variants L824-826.
ItemsToApply_Mutant(rep, apply_all) == rep.auto_apply \o rep.needs_review

ItemsToApply(rep, apply_all) ==
    IF apply_all THEN rep.auto_apply \o rep.needs_review ELSE rep.auto_apply

\* main L1043-1046: whether apply_variants is called at all.
ApplyWanted_Mutant(a, rep) ==
    ~(rep.summary.auto_apply_count = 0 /\ ~a.apply_all)

ApplyWanted(a, rep) ==
    a.apply /\ ~(rep.summary.auto_apply_count = 0 /\ ~a.apply_all)

\* main L1043-1060, apply_variants L824-835.
ApplyBegin ==
    /\ pc = "apply"
    /\ IF ~ApplyWanted(args, report)
       THEN /\ pc' = "cleanup"
            /\ UNCHANGED <<items_to_apply, apply_state>>
       ELSE /\ items_to_apply' = ItemsToApply(report, args.apply_all)
            /\ IF items_to_apply' = << >>
               THEN apply_state' = "returned" /\ pc' = "cleanup"   \* L828-830
               ELSE apply_state' = "running" /\ pc' = "applying"
    /\ k' = 0
    /\ UNCHANGED <<products, args, progress_file, processed_ids, results, remaining, i,
                   report, report_file, puts, posts, create_calls, calls, saves, loaded_ids, raised>>
    /\ UNCHANGED <<geminiVars, httpVars, clockVars, importVars, fnVars>>

\* What create_variants_for_product does with an analysis (L445-515):
\* "no_options" (returns success False, no request), "raise" (KeyError at
\* opt["name"], outside the try), or "put" (the update is sent).
create_variants_for_product(item) ==
    IF item.options \in {"absent", "empty"} THEN "no_options"              \* L448
    ELSE IF item.options = "noname" THEN "raise"                           \* L462
    ELSE "put"                                                             \* L511

InLookup(product_id) == \E n \in 1..Len(products) : products[n].id = product_id

\* apply_variants L837-872: one report entry. When the PUT has been sent,
\* `inventory` says whether _set_inventory_for_new_variants (L538-581) goes
\* on to POST inventory levels: the PUT succeeded and a location was found.
ApplyItem ==
    /\ pc = "applying"
    /\ k < Len(items_to_apply)
    /\ LET item == items_to_apply[k + 1]
           outcome == create_variants_for_product(item)
       IN  \E fetched \in {"ok", "empty", "raise"} : \E inventory \in BOOLEAN :
             \* L844-857: products outside the lookup are fetched first
             /\ InLookup(item.product_id) => fetched = "ok"
             /\ (fetched # "ok" \/ outcome # "put") => ~inventory
             \* in the large catalogues every update succeeds
             /\ (Len(products) > MaxProducts /\ outcome = "put") => inventory
             /\ IF fetched = "raise"
                THEN /\ pc' = "raised"
                     /\ raised' = "fetch_single_product: RequestException"
                     /\ UNCHANGED <<k, puts, posts, create_calls>>
                ELSE IF fetched = "empty"
                THEN /\ k' = k + 1
                     /\ UNCHANGED <<pc, raised, puts, posts, create_calls>>
                ELSE /\ create_calls' = Append(create_calls, item)          \* L860
                     /\ IF outcome = "raise"
                        THEN /\ pc' = "raised"
                             /\ raised' = "create_variants_for_product: KeyError"
                             /\ UNCHANGED <<k, puts, posts>>
                        ELSE /\ k' = k + 1
                             /\ puts' = IF outcome = "put"
                                        THEN Append(puts, item.product_id)
                                        ELSE puts
                             /\ posts' = IF inventory
                                         THEN Append(posts, item.product_id)
                                         ELSE posts
                             /\ UNCHANGED <<pc, raised>>
    /\ UNCHANGED <<products, args, progress_file, processed_ids, results, remaining, i,
                   report, report_file, items_to_apply, apply_state, calls, saves,
                   loaded_ids>>
    /\ UNCHANGED <<geminiVars, httpVars, clockVars, importVars, fnVars>>

\* apply_variants L874-875, main L1062-1066.
ApplyEnd ==
    /\ pc = "applying"
    /\ k = Len(items_to_apply)
    /\ apply_state' = "returned"
    /\ pc' = "cleanup"
    /\ UNCHANGED <<products, args, progress_file, processed_ids, results, remaining, i,
                   report, report_file, items_to_apply, k, puts, posts, create_calls, calls, saves,
                   loaded_ids, raised>>
    /\ UNCHANGED <<geminiVars, httpVars, clockVars, importVars, fnVars>>

\* The progress file after main's cleanup (L1068-1071).
Unlinked_Mutant(file) == file

Unlinked(file) == IF file.exists THEN AbsentFile ELSE file

\* main L1068-1075.
CleanUp ==
    /\ pc = "cleanup"
    /\ progress_file' = Unlinked(progress_file)
    /\ pc' = "done"
    /\ UNCHANGED <<products, args, processed_ids, results, remaining, i, report,
                   report_file, items_to_apply, k, apply_state, puts, posts, create_calls, calls, saves,
                   loaded_ids, raised>>
    /\ UNCHANGED <<geminiVars, httpVars, clockVars, importVars, fnVars>>

Next ==
    \/ NoProducts
    \/ RunAnalysisBegin
    \/ ProcessNext
    \/ Checkpoint
    \/ FinalSave
    \/ SaveReport
    \/ ApplyBegin
    \/ ApplyItem
    \/ ApplyEnd
    \/ CleanUp

Spec == Init /\ [][Next]_vars

\* ========================================================================
\* Properties of the batch run
\* ========================================================================

\* The exceptions that leave process_product and end run_analysis.
ProcessProductErrors ==
    {"process_product: TypeError", "process_product: KeyError",
     "process_product: JSONDecodeError"}

\* run_analysis has returned to main.
RunAnalysisReturned ==
    \/ pc \in {"report", "apply", "applying", "cleanup", "done"}
    \/ pc = "raised" /\ raised \notin ProcessProductErrors

ProductIds == {products[n].id : n \in 1..Len(products)}

\* C1: with resume=True, process_product is never called for a product whose
\* id is in the processed_ids of the progress file the run loaded, no product
\* is processed twice, and once run_analysis has returned every other product
\* of the input list has been processed exactly once.
C1_ResumeSkipsProcessed ==
    args.resume =>
        /\ \A id \in ProductIds : calls[id] <= 1
        /\ \A id \in ProductIds \cap loaded_ids : calls[id] = 0
        /\ RunAnalysisReturned => \A id \in ProductIds \ loaded_ids : calls[id] = 1

C1_Witness ==
    /\ args.resume
    /\ pc = "done"
    /\ ProductIds \cap loaded_ids # {}
    /\ \E id \in ProductIds \ loaded_ids : calls[id] = 1

\* C2: each save_progress of a run writes a superset of the processed_ids of
\* every earlier save of that run and, with resume=True, of the processed_ids
\* the progress file held when the run started.
C2_SavedIdsOnlyGrow ==
    /\ \A a \in 1..Len(saves) : \A b \in a..Len(saves) : saves[a] \subseteq saves[b]
    /\ args.resume => \A a \in 1..Len(saves) : loaded_ids \subseteq saves[a]

C2_Witness ==
    /\ args.resume
    /\ loaded_ids # {}
    /\ Len(saves) >= 2
    /\ saves[1] # saves[Len(saves)]

\* The products processed so far that the last write of the progress file
\* does not record.
Unrecorded ==
    processed_ids \ (IF saves = << >>
                     THEN (IF args.resume THEN loaded_ids ELSE {})
                     ELSE saves[Len(saves)])

\* C3: the progress file is written after every BATCH_SIZE-th product of the
\* current run and once more after the last one, so at no point are more
\* than BATCH_SIZE processed products missing from the progress file.
C3_CheckpointEveryBatch ==
    /\ Cardinality(Unrecorded) <= BATCH_SIZE
    /\ (pc = "loop" /\ i > 0 /\ i % BATCH_SIZE = 0) => Unrecorded = {}
    /\ RunAnalysisReturned =>
          /\ Unrecorded = {}
          /\ Len(saves) = (Len(remaining) \div BATCH_SIZE) + 1

C3_Witness ==
    /\ pc = "checkpoint"
    /\ Cardinality(Unrecorded) = BATCH_SIZE
    /\ Len(saves) = 1

C6_MalformedAnswerNeverCrashes ==
    ~(pc = "raised" /\ raised \in ProcessProductErrors)

\* ========================================================================
\* One product through analyze_product_with_gemini, process_product and
\* generate_report, for every answer of the Gemini endpoint
\* ========================================================================
IdleRun ==
    /\ products = << >>
    /\ progress_file = AbsentFile
    /\ processed_ids = {}
    /\ remaining = << >>
    /\ i = 0
    /\ report_file = FALSE
    /\ items_to_apply = << >>
    /\ k = 0
    /\ apply_state = "not_called"
    /\ puts = << >>
    /\ posts = << >>
    /\ create_calls = << >>
    /\ calls = << >>
    /\ saves = << >>
    /\ loaded_ids = {}

idleRunVars == <<products, progress_file, processed_ids, remaining, i, report_file,
                 items_to_apply, k, apply_state, puts, posts, create_calls, calls, saves, loaded_ids>>

InitGemini ==
    /\ IdleRun
    /\ IdleHttp
    /\ IdleImport
    /\ IdleFn
    /\ product \in ProductsWithId(1, GeminiResponses)
    /\ product.images = "ok"
    /\ api_key_set \in BOOLEAN
    /\ args \in {a \in ArgSets : ~a.resume /\ ~a.apply}
    /\ analysis = NonObject("null")
    /\ results = << >>
    /\ report = EmptyReport
    /\ pc = "analyze"
    /\ raised = ""

\* process_product L744: the call of analyze_product_with_gemini.
GeminiAnalyze ==
    /\ pc = "analyze"
    /\ analysis' = analyze_product_with_gemini(api_key_set, product.response)
    /\ IF analysis'.type = "raise"
       THEN pc' = "raised" /\ raised' = "analyze_product_with_gemini: " \o analysis'.error
       ELSE pc' = "process" /\ UNCHANGED raised
    /\ UNCHANGED <<idleRunVars, httpVars, clockVars, importVars, fnVars, product, api_key_set, args, results, report>>

\* process_product L750-774 and run_analysis L794-795: the result is recorded.
GeminiProcess ==
    /\ pc = "process"
    /\ LET result == process_product(product, args.verbose, api_key_set)
       IN  IF result.type = "raise"
           THEN /\ pc' = "raised"
                /\ raised' = "process_product: " \o result.error
                /\ UNCHANGED results
           ELSE /\ results' = Append(results, result)
                /\ pc' = "report"
                /\ UNCHANGED raised
    /\ UNCHANGED <<idleRunVars, httpVars, clockVars, importVars, fnVars, geminiVars, args, report>>

\* main L1032: the report of the results.
GeminiReport ==
    /\ pc = "report"
    /\ report' = generate_report(results, args.threshold)
    /\ pc' = "reported"
    /\ UNCHANGED <<idleRunVars, httpVars, clockVars, importVars, fnVars, geminiVars, args, results, raised>>

NextGemini == GeminiAnalyze \/ GeminiProcess \/ GeminiReport

SpecGemini == InitGemini /\ [][NextGemini]_vars

\* The answers the error contract covers: the request raised, the status is
\* not 200, the body has no candidates, the text is empty, or the text --
\* without surrounding whitespace and an enclosing code fence -- is not one
\* JSON value.
IsErrorAnswer(resp) ==
    \/ resp.outcome = "exception"
    \/ resp.status # 200
    \/ resp.body = "nocandidates"
    \/ /\ resp.body = "candidates"
       /\ \/ resp.text.payload \in {EmptyPayload, GarbagePayload}
          \/ resp.text.fence = "trailing"

\* C5: analyze_product_with_gemini never raises; for a failed request, a
\* non-200 status, no candidates, an empty text or a text that is not JSON it
\* returns a dict with a non-empty 'error' and has_variants False, and
\* generate_report puts that product in the 'errors' list.
C5_GeminiErrorsAreStructured ==
    /\ pc # "analyze" => analysis.type # "raise"
    /\ (pc # "analyze" /\ IsErrorAnswer(product.response)) =>
          /\ analysis.type = "object"
          /\ analysis.error \notin {"absent", ""}
          /\ analysis.has_variants = "false"
    /\ (pc = "reported" /\ IsErrorAnswer(product.response)) =>
          /\ Len(report.errors) = 1
          /\ report.errors[1].product_id = product.id
          /\ report.auto_apply = << >>
          /\ report.needs_review = << >>
          /\ report.no_variants = << >>

C5_Witness ==
    /\ pc = "reported"
    /\ api_key_set
    /\ product.response.outcome = "response"
    /\ product.response.status = 200
    /\ product.response.body = "candidates"
    /\ product.response.text.payload = GarbagePayload
    /\ Len(report.errors) = 1
    /\ report.errors[1].error = "Failed to parse Gemini JSON response"

\* ========================================================================
\* HTTP answers seen by the request helpers
\*   kind         "response" | "connection_error" | "timeout"
\*   status       the HTTP status of a response
\*   retry_after  the Retry-After header: "absent", a number of seconds as
\*                text ("0", "5"), or an HTTP-date (RFC 9110 allows both)
\*   json         whether the body parses as JSON
\* ========================================================================
HttpStatuses == {200, 404, 422, 429, 500, 503}

RetryAfterHeaders == {"absent", "0", "5", "Wed, 21 Oct 2026 07:28:00 GMT"}

HttpAnswers ==
    {[kind |-> kd, status |-> 0, retry_after |-> "absent", json |-> FALSE] :
        kd \in {"connection_error", "timeout"}}
    \cup {[kind |-> "response", status |-> 200, retry_after |-> "absent", json |-> j] :
            j \in BOOLEAN}
    \cup {[kind |-> "response", status |-> 429, retry_after |-> h, json |-> TRUE] :
            h \in RetryAfterHeaders}
    \cup {[kind |-> "response", status |-> st, retry_after |-> "absent", json |-> TRUE] :
            st \in HttpStatuses \ {200, 429}}

\* float(headers.get("Retry-After", 2)): the seconds, or -1 for ValueError.
RetryAfterSeconds(header) ==
    IF header = "absent" THEN DEFAULT_RETRY_AFTER
    ELSE IF header = "0" THEN 0
    ELSE IF header = "5" THEN 5
    ELSE -1

RECURSIVE Pow2(_)
Pow2(n) == IF n <= 0 THEN 1 ELSE 2 * Pow2(n - 1)

\* The exception an answer turns into.
ExceptionOf(answer) ==
    IF answer.kind = "connection_error" THEN "ConnectionError"
    ELSE IF answer.kind = "timeout" THEN "Timeout"
    ELSE IF answer.status >= 500 THEN "RequestException: Server error"
    ELSE IF answer.status >= 400 THEN "HTTPError"
    ELSE "JSONDecodeError"

\* What one pass of a retry loop decides:
\*   do     "continue" (next iteration) | "return" | "raise"
\*   sleep  seconds slept in this pass, -1 when none
\*   value  the value returned, or the exception raised
Continue(seconds) == [do |-> "continue", sleep |-> seconds, value |-> ""]
Return(value) == [do |-> "return", sleep |-> -1, value |-> value]
Throw(exc) == [do |-> "raise", sleep |-> -1, value |-> exc]

InitHttp(req, first) ==
    /\ IdleRun
    /\ IdleGemini
    /\ IdleImport
    /\ IdleFn
    /\ args = [resume |-> FALSE, apply |-> FALSE, apply_all |-> FALSE,
               verbose |-> TRUE, threshold |-> DEFAULT_CONFIDENCE_THRESHOLD]
    /\ results = << >>
    /\ report = EmptyReport
    /\ request = req
    /\ attempt = first
    /\ responses = << >>
    /\ sleeps = << >>
    /\ retval = "None"
    /\ IdleClock(1)
    /\ pc = "call"
    /\ raised = ""

\* The effect of one pass of a retry loop on the call's state; the loop ends
\* (and the function returns None) when `last` is the final iteration.
LoopPass(answer, pass, last) ==
    /\ responses' = Append(responses, answer)
    /\ sleeps' = IF pass.sleep >= 0 THEN Append(sleeps, pass.sleep) ELSE sleeps
    /\ IF pass.do = "raise"
       THEN pc' = "raised" /\ raised' = pass.value /\ UNCHANGED <<attempt, retval>>
       ELSE IF pass.do = "return"
       THEN pc' = "returned" /\ retval' = pass.value /\ UNCHANGED <<attempt, raised>>
       ELSE IF last
       THEN pc' = "returned" /\ retval' = "None" /\ UNCHANGED <<attempt, raised>>
       ELSE attempt' = attempt + 1 /\ UNCHANGED <<pc, retval, raised>>

\* ========================================================================
\* ai_variant_detector.shopify_request (L90-138)
\* ========================================================================
ShopifyMethods == {"GET", "PUT", "POST", "DELETE"}

InitShopify ==
    \E m \in ShopifyMethods : \E r \in 1..MaxRetries :
        InitHttp([function |-> "shopify_request", method |-> m, retries |-> r], 1)

\* One iteration of `for attempt in range(1, retries + 1)` (L107-138).
\* json_is_request_exception: whether the installed requests raises its
\* JSONDecodeError as a RequestException (2.27 and later) or as a ValueError.
shopify_attempt_Mutant(answer, att, retries, json_is_request_exception) ==
    \* `attempt <= retries`: the last failure is slept on, not raised
    IF answer.kind = "response" /\ answer.status = 429
    THEN IF RetryAfterSeconds(answer.retry_after) = -1
         THEN Throw("ValueError")
         ELSE Continue(RetryAfterSeconds(answer.retry_after))
    ELSE IF answer.kind = "response" /\ answer.status < 400 /\ answer.json
    THEN Return("body")
    ELSE IF /\ answer.kind = "response" /\ answer.status < 400
            /\ ~json_is_request_exception
    THEN Throw("ValueError")
    ELSE IF att <= retries
    THEN Continue(Pow2(att))
    ELSE Throw(ExceptionOf(answer))

shopify_attempt(answer, att, retries, json_is_request_exception) ==
    IF answer.kind = "response" /\ answer.status = 429                     \* L118
    THEN IF RetryAfterSeconds(answer.retry_after) = -1                     \* L119
         THEN Throw("ValueError")
         ELSE Continue(RetryAfterSeconds(answer.retry_after))             \* L121-122
    ELSE IF answer.kind = "response" /\ answer.status < 400 /\ answer.json
    THEN Return("body")                                                    \* L129-130
    ELSE IF /\ answer.kind = "response" /\ answer.status < 400
            /\ ~json_is_request_exception
    THEN Throw("ValueError")                                               \* L130
    \* L124-129: 5xx, raise_for_status() and connection errors are all
    \* RequestException, handled at L132-138
    ELSE IF att < retries
    THEN Continue(Pow2(att))                                               \* L134-136
    ELSE Throw(ExceptionOf(answer))                                        \* L138

\* A time in ms as the clock keeps it.
Saturate(ms) == IF ms < SHOPIFY_RATE_LIMIT_MS THEN ms ELSE SHOPIFY_RATE_LIMIT_MS

\* L101-104: the time slept before the call's first request.
RateLimitWait(elapsed) ==
    IF elapsed < SHOPIFY_RATE_LIMIT_MS THEN SHOPIFY_RATE_LIMIT_MS - elapsed ELSE 0

\* The time an HTTP request takes until its answer, and the time a caller
\* spends between two calls, in ms.
RequestTimes == {100, 600}

CallerPauses == {0, 600}

\* L95-105 and the method dispatch of the first iteration (L109-116).
ShopifyCall ==
    /\ pc = "call"
    /\ request.function = "shopify_request"
    /\ since_request' = Saturate(since_request + RateLimitWait(since_stamp))
    /\ since_stamp' = 0                                                    \* L105
    /\ IF request.method \in {"GET", "PUT", "POST"}
       THEN pc' = "attempt" /\ UNCHANGED raised
       ELSE pc' = "raised" /\ raised' = "ValueError: Unsupported method"
    /\ UNCHANGED <<runVars, geminiVars, importVars, fnVars, request, attempt, responses, sleeps, retval,
                   min_gap, call_no>>

\* One HTTP attempt and what follows it (L107-138).
ShopifyAttempt ==
    /\ pc = "attempt"
    /\ request.function = "shopify_request"
    /\ \E answer \in HttpAnswers : \E json_is_request_exception \in BOOLEAN :
       \E took \in RequestTimes :
          LET pass == shopify_attempt(answer, attempt, request.retries,
                                      json_is_request_exception)
              passed == took + (IF pass.sleep >= 0 THEN 1000 * pass.sleep ELSE 0)
          IN  /\ LoopPass(answer, pass, attempt = request.retries)
              /\ min_gap' = IF since_request < min_gap THEN since_request ELSE min_gap
              /\ since_request' = Saturate(passed)
              /\ since_stamp' = Saturate(since_stamp + passed)
    /\ UNCHANGED <<runVars, geminiVars, importVars, fnVars, request, call_no>>

\* The caller goes on to its next call of shopify_request: the pages of
\* fetch_all_products (L156-168), the PUT of create_variants_for_product
\* (L511) and the requests of _set_inventory_for_new_variants (L550, L568).
ShopifyNextCall ==
    /\ pc \in {"returned", "raised"}
    /\ request.function = "shopify_request"
    /\ call_no < MaxCalls
    /\ \E m \in ShopifyMethods : \E r \in 1..MaxRetries :
          request' = [function |-> "shopify_request", method |-> m, retries |-> r]
    /\ \E pause \in CallerPauses :
          /\ since_request' = Saturate(since_request + pause)
          /\ since_stamp' = Saturate(since_stamp + pause)
    /\ call_no' = call_no + 1
    /\ attempt' = 1
    /\ responses' = << >>
    /\ sleeps' = << >>
    /\ retval' = "None"
    /\ raised' = ""
    /\ pc' = "call"
    /\ UNCHANGED <<runVars, geminiVars, importVars, fnVars, min_gap>>

NextShopify == ShopifyCall \/ ShopifyAttempt \/ ShopifyNextCall

SpecShopify == InitShopify /\ [][NextShopify]_vars

\* ========================================================================
\* hide_wholesale_and_clean_titles.api_put (L61-81)
\* ========================================================================
InitApiPut ==
    InitHttp([function |-> "api_put", method |-> "PUT", retries |-> API_PUT_ATTEMPTS], 0)

\* One iteration of `for attempt in range(4)` (L69-80).
api_put_attempt(answer, att) ==
    IF answer.kind = "response" /\ answer.status < 400
    THEN IF answer.json THEN Return("body")                                \* L71-72
         ELSE Continue(Pow2(att))                                          \* L79-80
    ELSE IF answer.kind = "response"                                       \* L73
    THEN IF answer.status = 429                                            \* L74
         THEN IF RetryAfterSeconds(answer.retry_after) = -1                \* L75
              THEN Throw("ValueError")
              ELSE Continue(RetryAfterSeconds(answer.retry_after))        \* L76
         ELSE Return("None")                                               \* L78
    ELSE Continue(Pow2(att))                                               \* L79-80

\* L63-68: the request is built.
ApiPutCall ==
    /\ pc = "call"
    /\ request.function = "api_put"
    /\ pc' = "attempt"
    /\ UNCHANGED <<runVars, geminiVars, importVars, fnVars, httpVars, clockVars, raised>>

\* One HTTP attempt and what follows it (L69-81).
ApiPutAttempt ==
    /\ pc = "attempt"
    /\ request.function = "api_put"
    /\ \E answer \in HttpAnswers :
          LoopPass(answer, api_put_attempt(answer, attempt),
                   attempt = request.retries - 1)
    /\ UNCHANGED <<runVars, geminiVars, importVars, fnVars, clockVars, request>>

NextApiPut == ApiPutCall \/ ApiPutAttempt

SpecApiPut == InitApiPut /\ [][NextApiPut]_vars

\* ========================================================================
\* Properties of the request helpers
\* ========================================================================
IsRateLimited(answer) == answer.kind = "response" /\ answer.status = 429

IsSuccess(answer) == answer.kind = "response" /\ answer.status = 200 /\ answer.json

\* A 5xx response or a connection error.
IsServerFailure(answer) ==
    \/ answer.kind \in {"connection_error", "timeout"}
    \/ answer.kind = "response" /\ answer.status >= 500

\* An HTTP error status other than 429 and below 500.
IsClientError(answer) ==
    /\ answer.kind = "response"
    /\ answer.status >= 400 /\ answer.status < 500 /\ answer.status # 429

CallFinished == pc \in {"returned", "raised"}

\* C7: in shopify_request every 429 response is followed by a wait of the
\* Retry-After seconds (2 without the header) and by another attempt; the
\* call never finishes on a 429, and a call that returns returns the parsed
\* body of a successful response.
C7_RateLimitAlwaysRetried ==
    /\ \A n \in 1..Len(responses) :
          IsRateLimited(responses[n]) =>
             /\ n = Len(responses) => ~CallFinished
             /\ n <= Len(sleeps)
             /\ sleeps[n] = RetryAfterSeconds(responses[n].retry_after)
    /\ pc = "returned" =>
          /\ retval = "body"
          /\ IsSuccess(responses[Len(responses)])

\* C8: when every attempt of a shopify_request call ends in a 5xx response or
\* a connection error, the call makes exactly `retries` attempts, sleeps
\* 2^attempt seconds after each failed attempt but the last, and raises the
\* exception of the last attempt; no call makes more than `retries` attempts.
C8_ServerErrorsExhaustRetries ==
    /\ Len(responses) <= request.retries
    /\ (responses # << >> /\ \A n \in 1..Len(responses) : IsServerFailure(responses[n])) =>
          /\ Len(sleeps) = (IF CallFinished THEN Len(responses) - 1 ELSE Len(responses))
          /\ \A n \in 1..Len(sleeps) : sleeps[n] = 2 ^ n
          /\ CallFinished =>
                /\ pc = "raised"
                /\ Len(responses) = request.retries
                /\ raised = (IF responses[Len(responses)].kind = "connection_error"
                             THEN "ConnectionError"
                             ELSE IF responses[Len(responses)].kind = "timeout"
                             THEN "Timeout"
                             ELSE "RequestException: Server error")

C8_Witness ==
    /\ pc = "raised"
    /\ request.retries = DEFAULT_RETRIES
    /\ Len(responses) = DEFAULT_RETRIES
    /\ \A n \in 1..Len(responses) : IsServerFailure(responses[n])
    /\ responses[1].kind = "connection_error"
    /\ responses[DEFAULT_RETRIES].kind = "response"
    /\ sleeps = <<2, 4>>
    /\ raised = "RequestException: Server error"

\* C9: in shopify_request a response with an error status other than 429 and
\* below 500 ends the call at once with an exception: no attempt follows it.
C9_ClientErrorsAreFatal ==
    \A n \in 1..Len(responses) :
        IsClientError(responses[n]) => (n = Len(responses) /\ pc = "raised")

\* C10: api_put never raises and makes at most 4 attempts; it returns the
\* parsed body of the first successful attempt, None at once on an HTTP error
\* that is neither 429 nor 5xx, and None when all 4 attempts have failed.
C10_ApiPutNeverRaises ==
    /\ pc # "raised"
    /\ Len(responses) <= API_PUT_ATTEMPTS
    /\ \A n \in 1..Len(responses) :
          \/ IsSuccess(responses[n])
          \/ IsClientError(responses[n])
          => (n = Len(responses) /\ pc = "returned")
    /\ pc = "returned" =>
          retval = (IF IsSuccess(responses[Len(responses)]) THEN "body" ELSE "None")

\* C11: in api_put a 5xx response is treated like a connection error: unless
\* it answers the last of the 4 attempts the request is sent again, after a
\* wait of 2^attempt seconds (attempt counted from 0).
C11_ApiPutRetriesServerErrors ==
    \A n \in 1..Len(responses) :
        (responses[n].kind = "response" /\ responses[n].status >= 500) =>
            /\ (n = Len(responses) /\ CallFinished) => n = API_PUT_ATTEMPTS
            /\ n < API_PUT_ATTEMPTS =>
                  /\ n <= Len(sleeps)
                  /\ sleeps[n] = 2 ^ (n - 1)


\* C12: between any two successive HTTP requests that shopify_request sends
\* (first attempts and retries alike, within one call or across calls) at
\* least SHOPIFY_RATE_LIMIT_MS elapse.
C12_RequestsSpacedByRateLimit == min_gap >= SHOPIFY_RATE_LIMIT_MS


\* C13: a run in --analyze mode sends no PUT and no POST to Shopify, whatever
\* the analysis results are and whether or not --apply-all is given.
C13_AnalyzeSendsNoWrites ==
    ~args.apply => (puts = << >> /\ posts = << >> /\ create_calls = << >>)

C13_Witness ==
    /\ pc = "done"
    /\ ~args.apply
    /\ args.apply_all
    /\ report.summary.auto_apply_count > 0
    /\ report.summary.needs_review_count > 0
    /\ puts = << >>
    /\ posts = << >>

\* C14: with --apply and without --apply-all, create_variants_for_product is
\* called only for results that have no error, whose has_variants is true and
\* whose confidence is at least the threshold.
C14_ApplyOnlyHighConfidence ==
    (args.apply /\ ~args.apply_all) =>
        \A n \in 1..Len(create_calls) :
            /\ ~Truthy(create_calls[n].error)
            /\ create_calls[n].has_variants = "true"
            /\ GetConfidence(create_calls[n]) >= args.threshold

C14_Witness ==
    /\ pc = "done"
    /\ args.apply
    /\ ~args.apply_all
    /\ Len(create_calls) = 1
    /\ report.summary.needs_review_count > 0


\* The lists of the report that hold a result.
ListsHolding(r) ==
    {name \in {"errors", "no_variants", "auto_apply", "needs_review"} :
        \E m \in 1..Len(report[name]) : report[name][m] = r}

\* C15: generate_report partitions its input: a result with a truthy error is
\* in errors; otherwise one whose has_variants is not truthy is in
\* no_variants; otherwise it is in auto_apply when its confidence is at least
\* the threshold and in needs_review when not. The four counts of the summary
\* are the lengths of the lists and add up to total_analyzed.
C15_ReportPartitionsResults ==
    pc = "reported" =>
        /\ report.total_analyzed = Len(results)
        /\ report.summary.total_analyzed = Len(results)
        /\ report.summary.error_count = Len(report.errors)
        /\ report.summary.no_variants_count = Len(report.no_variants)
        /\ report.summary.auto_apply_count = Len(report.auto_apply)
        /\ report.summary.needs_review_count = Len(report.needs_review)
        /\ report.summary.error_count + report.summary.no_variants_count
             + report.summary.auto_apply_count + report.summary.needs_review_count
             = report.total_analyzed
        /\ \A n \in 1..Len(results) :
              LET r == results[n]
                  err == Truthy(r.error)
                  has == Truthy(r.has_variants)
                  high == GetConfidence(r) >= report.threshold
              IN  /\ "errors" \in ListsHolding(r) <=> err
                  /\ "no_variants" \in ListsHolding(r) <=> (~err /\ ~has)
                  /\ "auto_apply" \in ListsHolding(r) <=> (~err /\ has /\ high)
                  /\ "needs_review" \in ListsHolding(r) <=> (~err /\ has /\ ~high)

C15_Witness ==
    /\ pc = "reported"
    /\ Len(results) = 1
    /\ Truthy(results[1].error)
    /\ Truthy(results[1].has_variants)
    /\ results[1].confidence = 100
    /\ report.summary.error_count = 1


\* ========================================================================
\* The importer scripts: tools/product_listing_importer.py,
\* tools/pdf_product_importer.py, tools/cloud_yhs_importer.py and
\* tools/fix_cloud_yhs_images.py
\*   flags     the options of the command line that choose a mode, `token`
\*             (SHOPIFY_ACCESS_TOKEN is set) and `google_key`
\*   selected  the products of the run, each with the number of images it
\*             has in the store and whether a local image file is found
\*   sent      the requests sent to Shopify: method, target, product
\*   store     per product its status ("none" before it is created) and
\*             the number of its images
\* ========================================================================
IMAGES_PER_PRODUCT == 5

MaxSelected == 2
MaxImages == 2

Scripts == {"product_listing_importer", "pdf_product_importer",
            "cloud_yhs_importer", "fix_cloud_yhs_images"}

NoFlags == [list |-> FALSE, show_titles |-> FALSE, dry_run |-> FALSE,
            execute |-> FALSE, publish |-> FALSE, no_images |-> FALSE,
            delete_only |-> FALSE, upload_only |-> FALSE,
            token |-> TRUE, google_key |-> TRUE]

\* The command lines of a script (its argparse options).
FlagsOf(name) ==
    IF name = "product_listing_importer"
    THEN {[NoFlags EXCEPT !.list = a, !.show_titles = b, !.dry_run = c,
                          !.execute = d, !.publish = e, !.token = t] :
            a \in BOOLEAN, b \in BOOLEAN, c \in BOOLEAN, d \in BOOLEAN,
            e \in BOOLEAN, t \in BOOLEAN}
    ELSE IF name = "pdf_product_importer"
    THEN {[NoFlags EXCEPT !.list = a, !.dry_run = c, !.execute = d,
                          !.publish = e, !.token = t] :
            a \in BOOLEAN, c \in BOOLEAN, d \in BOOLEAN, e \in BOOLEAN,
            t \in BOOLEAN}
    ELSE IF name = "cloud_yhs_importer"
    THEN {[NoFlags EXCEPT !.list = a, !.dry_run = c, !.no_images = d,
                          !.token = t, !.google_key = g] :
            a \in BOOLEAN, c \in BOOLEAN, d \in BOOLEAN, t \in BOOLEAN,
            g \in BOOLEAN}
    ELSE {[NoFlags EXCEPT !.dry_run = c, !.delete_only = a, !.upload_only = b,
                          !.token = t] :
            a \in BOOLEAN, b \in BOOLEAN, c \in BOOLEAN, t \in BOOLEAN}

ProductsOf(name) ==
    IF name = "cloud_yhs_importer"
    THEN {[images |-> 0, local_image |-> FALSE]}
    ELSE IF name = "fix_cloud_yhs_images"
    THEN [images : 0..MaxImages, local_image : BOOLEAN]
    ELSE [images : {0}, local_image : BOOLEAN]

Selections(name) == UNION {[1..n -> ProductsOf(name)] : n \in 0..MaxSelected}

IdleMain ==
    /\ IdleRun
    /\ IdleGemini
    /\ IdleHttp
    /\ args = [resume |-> FALSE, apply |-> FALSE, apply_all |-> FALSE,
               verbose |-> TRUE, threshold |-> DEFAULT_CONFIDENCE_THRESHOLD]
    /\ results = << >>
    /\ report = EmptyReport
    /\ raised = ""

InitImport ==
    /\ IdleMain
    /\ IdleFn
    /\ script \in Scripts
    /\ flags \in FlagsOf(script)
    /\ selected \in Selections(script)
    /\ idx = 0
    /\ sent = << >>
    /\ store = [n \in 1..Len(selected) |->
                  [status |-> IF script = "fix_cloud_yhs_images" THEN "active" ELSE "none",
                   images |-> selected[n].images]]
    /\ pc = "main"

Req(method, target, n) == [method |-> method, target |-> target, product |-> n]

Repeat(x, n) == [m \in 1..n |-> x]

idleInImport == <<runVars, geminiVars, httpVars, clockVars, fnVars>>

\* product_listing_importer.main L1001, pdf_product_importer.main L1116:
\* whether the run only previews.
Preview_Mutant(f) == f.dry_run /\ ~f.execute

Preview(f) == f.dry_run \/ ~f.execute


\* main of product_listing_importer (L953-1027) and of pdf_product_importer
\* (L1082-1131): the modes that return before anything is created.
ImporterMain(name) ==
    /\ pc = "main"
    /\ script = name
    /\ pc' = IF flags.list \/ flags.show_titles \/ Preview(flags) THEN "done"
             ELSE IF ~flags.token THEN "exited"
             ELSE "loop"
    /\ UNCHANGED <<importVars, idleInImport, raised>>

\* One product of the loop of main: product_listing_importer
\* process_single_product (L859-924) with create_shopify_product (L735-797)
\* and update_inventory_cost (L799-832); pdf_product_importer main
\* L1140-1161 with create_product (L879-922).
ImporterProduct(name) ==
    /\ pc = "loop"
    /\ script = name
    /\ idx < Len(selected)
    /\ \E created \in BOOLEAN : \E variant_found \in BOOLEAN :
       \E uploaded \in BOOLEAN : \E published \in BOOLEAN :
          LET n == idx + 1
              cost == IF variant_found
                      THEN <<Req("GET", "variant", n), Req("PUT", "inventory_item", n)>>
                      ELSE <<Req("GET", "variant", n)>>
              image == IF selected[n].local_image
                       THEN <<Req("POST", "images", n)>> ELSE << >>
              publish == IF flags.publish
                         THEN <<Req("PUT", "product", n)>> ELSE << >>
          IN  /\ sent' = sent \o <<Req("POST", "products", n)>>
                           \o (IF created THEN cost \o image \o publish ELSE << >>)
              /\ store' = IF ~created THEN store
                          ELSE [store EXCEPT ![n] =
                                  [status |-> IF flags.publish /\ published
                                              THEN "active" ELSE "draft",
                                   images |-> IF selected[n].local_image /\ uploaded
                                              THEN 1 ELSE 0]]
    /\ idx' = idx + 1
    /\ UNCHANGED <<script, flags, selected, idleInImport, pc, raised>>

ListingMain == ImporterMain("product_listing_importer")

ListingProduct == ImporterProduct("product_listing_importer")

PdfMain == ImporterMain("pdf_product_importer")

PdfProduct == ImporterProduct("pdf_product_importer")

\* cloud_yhs_importer.main L600-630.
CloudMain ==
    /\ pc = "main"
    /\ script = "cloud_yhs_importer"
    /\ pc' = IF flags.list \/ flags.dry_run THEN "done"
             ELSE IF ~flags.token THEN "exited"
             ELSE "loop"
    /\ flags' = IF pc' = "loop" /\ ~flags.no_images /\ ~flags.google_key   \* L628-630
                THEN [flags EXCEPT !.no_images = TRUE]
                ELSE flags
    /\ UNCHANGED <<script, selected, idx, sent, store, idleInImport, raised>>

\* What publish_product makes of a product's status (L485-507).
Published(ok) == IF ok THEN "active" ELSE "draft"

\* cloud_yhs_importer.process_single_product (L510-583): `generated` of the
\* IMAGES_PER_PRODUCT images are generated and sent to Shopify, `uploaded`
\* of these uploads succeed.
CloudProduct ==
    /\ pc = "loop"
    /\ script = "cloud_yhs_importer"
    /\ idx < Len(selected)
    /\ \E created \in BOOLEAN : \E published \in BOOLEAN :
       \E generated \in 0..IMAGES_PER_PRODUCT : \E uploaded \in 0..generated :
          LET n == idx + 1
              create == <<Req("POST", "products", n)>>
              publish == <<Req("PUT", "product", n)>>
          IN  IF ~created                                               \* L522-524
              THEN sent' = sent \o create /\ UNCHANGED store
              ELSE IF flags.no_images                                   \* L529-534
              THEN /\ sent' = sent \o create \o publish
                   /\ store' = [store EXCEPT ![n] =
                                  [status |-> Published(published), images |-> 0]]
              ELSE /\ sent' = sent \o create                            \* L546-577
                                \o Repeat(Req("POST", "images", n), generated)
                                \o (IF uploaded > 0 THEN publish ELSE << >>)
                   /\ store' = [store EXCEPT ![n] =
                                  [status |-> IF uploaded > 0 THEN Published(published)
                                              ELSE "draft",
                                   images |-> uploaded]]
    /\ idx' = idx + 1
    /\ UNCHANGED <<script, flags, selected, idleInImport, pc, raised>>

\* fix_cloud_yhs_images.main L224-249: the products are fetched.
FixMain ==
    /\ pc = "main"
    /\ script = "fix_cloud_yhs_images"
    /\ IF ~flags.token
       THEN pc' = "exited" /\ UNCHANGED sent
       ELSE /\ sent' = <<Req("GET", "products", 0)>>
            /\ pc' = IF selected = << >> THEN "done" ELSE "loop"
    /\ UNCHANGED <<script, flags, selected, idx, store, idleInImport, raised>>

\* fix_cloud_yhs_images.main L251-291: one product. `deleted` of the DELETE
\* requests succeed.
FixProduct ==
    /\ pc = "loop"
    /\ script = "fix_cloud_yhs_images"
    /\ idx < Len(selected)
    /\ LET n == idx + 1
           deletes == IF ~flags.upload_only /\ selected[n].images > 0      \* L272
                      THEN Repeat(Req("DELETE", "image", n), selected[n].images)
                      ELSE << >>
           upload == IF ~flags.delete_only /\ selected[n].local_image      \* L280-282
                     THEN <<Req("POST", "images", n)>> ELSE << >>
       IN  IF flags.dry_run                                                \* L262-269
           THEN UNCHANGED <<sent, store>>
           ELSE \E deleted \in 0..Len(deletes) : \E uploaded \in 0..Len(upload) :
                   /\ sent' = sent \o deletes \o upload
                   /\ store' = [store EXCEPT ![n].images = @ - deleted + uploaded]
    /\ idx' = idx + 1
    /\ UNCHANGED <<script, flags, selected, idleInImport, pc, raised>>

\* The loop of main is over.
ImportEnd ==
    /\ pc = "loop"
    /\ idx = Len(selected)
    /\ pc' = "done"
    /\ UNCHANGED <<importVars, idleInImport, raised>>

NextImport ==
    \/ ListingMain
    \/ ListingProduct
    \/ PdfMain
    \/ PdfProduct
    \/ CloudMain
    \/ CloudProduct
    \/ FixMain
    \/ FixProduct
    \/ ImportEnd

SpecImport == InitImport /\ [][NextImport]_vars

Writes == {"POST", "PUT", "DELETE"}

\* C16: a dry run changes nothing in the store. product_listing_importer and
\* pdf_product_importer send no request unless --execute is given and
\* --dry-run is not; cloud_yhs_importer with --dry-run sends none;
\* fix_cloud_yhs_images with --dry-run sends no DELETE and no POST.
C16_DryRunChangesNothing ==
    /\ (/\ script \in {"product_listing_importer", "pdf_product_importer"}
        /\ (flags.dry_run \/ ~flags.execute)) => sent = << >>
    /\ (script = "cloud_yhs_importer" /\ flags.dry_run) => sent = << >>
    /\ (script = "fix_cloud_yhs_images" /\ flags.dry_run) =>
          \A n \in 1..Len(sent) : sent[n].method \notin Writes
    /\ (script \in Scripts /\ sent = << >>) =>
          \A n \in 1..Len(store) : store[n].images = selected[n].images

C16_Witness ==
    /\ script = "fix_cloud_yhs_images"
    /\ flags.dry_run
    /\ pc = "done"
    /\ Len(selected) = MaxSelected
    /\ selected[1].images > 0
    /\ selected[1].local_image
    /\ sent = <<Req("GET", "products", 0)>>

\* C17: a product created by cloud_yhs_importer.process_single_product is
\* active only if at least one image has been uploaded to it; with no
\* uploaded image it stays a draft, with --no-images too.
C17_ActiveOnlyWithImage ==
    script = "cloud_yhs_importer" =>
        \A n \in 1..Len(store) : store[n].status = "active" => store[n].images >= 1

\* The positions in `sent` of the requests of one kind for product n.
Positions(method, target, n) ==
    {m \in 1..Len(sent) : sent[m] = Req(method, target, n)}

\* C18: fix_cloud_yhs_images in its default mode re-uploads what it removes:
\* for every product it has handled and sent a DELETE for, it has sent an
\* image upload, and all the product's DELETE requests precede the upload.
C18_DeletedImagesAreReuploaded ==
    (/\ script = "fix_cloud_yhs_images"
     /\ ~flags.dry_run /\ ~flags.delete_only /\ ~flags.upload_only) =>
        \A n \in 1..idx :
            Positions("DELETE", "image", n) # {} =>
                \E u \in Positions("POST", "images", n) :
                    \A d \in Positions("DELETE", "image", n) : d < u


\* ========================================================================
\* ai_variant_detector.create_variants_for_product (L425-535), in detail
\*   input   price: the price of the product's first variant, or "absent";
\*           options, variants: the lists of the analysis;
\*           named: whether every option of the analysis has a "name"
\*   output  success, and the update payloads sent with PUT
\* ========================================================================
MAX_VARIANTS_PER_PRODUCT == 100
MAX_OPTIONS_PER_PRODUCT == 3

MaxExtra == 2

Count(n) == [m \in 1..n |-> m]

CreateInputs ==
    [function : {"create_variants_for_product"},
     price : {"absent", "9.99", "24.00"},
     named : BOOLEAN,
     options : {Count(n) : n \in 0..(MAX_OPTIONS_PER_PRODUCT + MaxExtra)},
     variants : {Count(n) : n \in (0..MaxExtra) \cup
                    (MAX_VARIANTS_PER_PRODUCT..(MAX_VARIANTS_PER_PRODUCT + MaxExtra))}]

InitCreate ==
    /\ IdleMain
    /\ IdleImport
    /\ input \in CreateInputs
    /\ output = << >>
    /\ pc = "call"

\* L436: original_variant.get("price", "0.00").
OriginalPrice(price) == IF price = "absent" THEN "0.00" ELSE price

\* L452-456: the lists are cut to the limits.
Truncate_Mutant(s, n) == s

Truncate(s, n) == IF Len(s) > n THEN SubSeq(s, 1, n) ELSE s

\* L458-502: the update payload.
UpdatePayload(inp) ==
    LET options_data == Truncate(inp.options, MAX_OPTIONS_PER_PRODUCT)
        variants_data == Truncate(inp.variants, MAX_VARIANTS_PER_PRODUCT)
    IN  [options |-> [m \in 1..Len(options_data) |->
                        [name |-> options_data[m], position |-> m]],
         variants |-> [m \in 1..Len(variants_data) |->
                        [option1 |-> variants_data[m],
                         price |-> OriginalPrice(inp.price)]]]

\* One call: L448-449 returns before anything is built; opt["name"] (L462)
\* raises outside the try; the PUT (L509-515) succeeds or raises into the
\* except at L529-534.
CreateVariants ==
    /\ pc = "call"
    /\ input.function = "create_variants_for_product"
    /\ IF input.options = << >> \/ input.variants = << >>
       THEN /\ output' = [success |-> FALSE, requests |-> << >>]
            /\ pc' = "returned"
            /\ UNCHANGED raised
       ELSE IF ~input.named
       THEN /\ pc' = "raised"
            /\ raised' = "KeyError: 'name'"
            /\ UNCHANGED output
       ELSE /\ \E put_ok \in BOOLEAN :
                 output' = [success |-> put_ok, requests |-> <<UpdatePayload(input)>>]
            /\ pc' = "returned"
            /\ UNCHANGED raised
    /\ UNCHANGED <<input, runVars, geminiVars, httpVars, clockVars, importVars>>

NextCreate == CreateVariants

SpecCreate == InitCreate /\ [][NextCreate]_vars

\* C19: the update create_variants_for_product sends has at most
\* MAX_OPTIONS_PER_PRODUCT options and at most MAX_VARIANTS_PER_PRODUCT
\* variants, each variant with the price of the product's original variant;
\* when the analysis has no options or no variants the call returns success
\* False and sends nothing.
C19_UpdateWithinLimits ==
    pc = "returned" =>
        /\ \A n \in 1..Len(output.requests) :
              /\ Len(output.requests[n].options) <= MAX_OPTIONS_PER_PRODUCT
              /\ Len(output.requests[n].variants) <= MAX_VARIANTS_PER_PRODUCT
              /\ \A m \in 1..Len(output.requests[n].variants) :
                    output.requests[n].variants[m].price = OriginalPrice(input.price)
        /\ (input.options = << >> \/ input.variants = << >>) =>
              (~output.success /\ output.requests = << >>)

C19_Witness ==
    /\ pc = "returned"
    /\ Len(input.options) > MAX_OPTIONS_PER_PRODUCT
    /\ Len(input.variants) > MAX_VARIANTS_PER_PRODUCT
    /\ input.price = "9.99"
    /\ output.success
    /\ Len(output.requests) = 1
    /\ Len(output.requests[1].variants) = MAX_VARIANTS_PER_PRODUCT


\* ========================================================================
\* pdf_product_importer.match_images_to_products (L978-1066)
\*   input   images: the images of the PDF that pass the filters of
\*           L995-1011, in the order of the pages' image lists;
\*           positions: what get_product_positions returns, one entry per
\*           product of `products`;
\*           missing: how many of the last images extract_images_from_pdf
\*           could not save, image_paths listing the others in the order
\*           of all_images
\*   output  all_images: the images as sorted at L1020;
\*           matched: per product the index in all_images of the image the
\*           loop took for it (used_image_indices), 0 for none;
\*           image_path: per product the index in image_paths of the path
\*           it is given, 0 for None, -1 when the key is left unset
\* ========================================================================
MATCH_CUTOFF == 200

MaxPositions == 2
MaxPdfImages == 3
MaxMissing == 1

Pages == {0, 1}

Ys == {0, 10, 200}

Spots == [page : Pages, y : Ys]

MatchInputs ==
    [function : {"match_images_to_products"},
     images : UNION {[1..n -> Spots] : n \in 0..MaxPdfImages},
     positions : UNION {[1..n -> Spots] : n \in 0..MaxPositions},
     missing : 0..MaxMissing]

InitMatch ==
    /\ IdleMain
    /\ IdleImport
    /\ input \in MatchInputs
    /\ output = << >>
    /\ pc = "call"

\* L1020: the sort key (page, y).
Before(a, b) == a.page < b.page \/ (a.page = b.page /\ a.y <= b.y)

RECURSIVE Insert(_, _)
Insert(sorted, img) ==
    IF sorted = << >> THEN <<img>>
    ELSE IF Before(sorted[Len(sorted)], img) THEN Append(sorted, img)
    ELSE Append(Insert(SubSeq(sorted, 1, Len(sorted) - 1), img), sorted[Len(sorted)])

RECURSIVE SortImages(_)
SortImages(imgs) ==
    IF imgs = << >> THEN << >>
    ELSE Insert(SortImages(SubSeq(imgs, 1, Len(imgs) - 1)), imgs[Len(imgs)])

\* L1050: distance = abs(img['y'] - prod_y).
Distance(img, pos) == IF img.y >= pos.y THEN img.y - pos.y ELSE pos.y - img.y

\* L1060: within reasonable distance.
WithinCutoff_Mutant(d) == d <= MATCH_CUTOFF

WithinCutoff(d) == d < MATCH_CUTOFF

\* L1044-1048: the images the loop does not skip.
Candidates_Mutant(imgs, used, pos) ==
    {n \in 1..Len(imgs) : imgs[n].page = pos.page}

Candidates(imgs, used, pos) ==
    {n \in 1..Len(imgs) : n \notin used /\ imgs[n].page = pos.page}

\* L1040-1053: the first of the nearest candidates, 0 when there is none.
BestImage_Mutant(imgs, used, pos) ==
    \* the first candidate, whatever its distance
    IF Candidates(imgs, used, pos) = {} THEN 0
    ELSE CHOOSE n \in Candidates(imgs, used, pos) :
            \A m \in Candidates(imgs, used, pos) : n <= m

BestImage(imgs, used, pos) ==
    IF Candidates(imgs, used, pos) = {} THEN 0
    ELSE CHOOSE n \in Candidates(imgs, used, pos) :
            \A m \in Candidates(imgs, used, pos) :
                \/ Distance(imgs[n], pos) < Distance(imgs[m], pos)
                \/ Distance(imgs[n], pos) = Distance(imgs[m], pos) /\ n <= m

\* L1030-1066: the products from the n-th on, `used` being
\* used_image_indices.
RECURSIVE MatchFrom(_, _, _, _)
MatchFrom(imgs, positions, n, used) ==
    IF n > Len(positions) THEN << >>
    ELSE LET best == BestImage(imgs, used, positions[n])
             found == /\ best # 0                                          \* L1060
                      /\ WithinCutoff(Distance(imgs[best], positions[n]))
         IN  <<IF found THEN best ELSE 0>>
               \o MatchFrom(imgs, positions, n + 1,
                            IF found THEN used \cup {best} ELSE used)

\* len(image_paths).
PathCount(inp) ==
    IF Len(inp.images) > inp.missing THEN Len(inp.images) - inp.missing ELSE 0

\* L1060-1066: what becomes of the product's image_path.
ImagePath(best, paths) ==
    IF best = 0 THEN 0                                                     \* L1066
    ELSE IF best <= paths THEN best                                        \* L1063-1064
    ELSE -1

MatchImages ==
    /\ pc = "call"
    /\ input.function = "match_images_to_products"
    /\ LET all_images == SortImages(input.images)
           matched == MatchFrom(all_images, input.positions, 1, {})
       IN  output' = [all_images |-> all_images,
                      matched |-> matched,
                      image_path |-> [n \in 1..Len(matched) |->
                                        ImagePath(matched[n], PathCount(input))]]
    /\ pc' = "returned"
    /\ UNCHANGED <<input, raised, runVars, geminiVars, httpVars, clockVars, importVars>>

NextMatch == MatchImages

SpecMatch == InitMatch /\ [][NextMatch]_vars

\* The images on the page of the n-th product that are nearer to it than
\* the image it was given.
NearerImages(n) ==
    {m \in 1..Len(output.all_images) :
        /\ output.all_images[m].page = input.positions[n].page
        /\ Distance(output.all_images[m], input.positions[n])
             < Distance(output.all_images[output.image_path[n]], input.positions[n])}

\* The images given to the products matched before the n-th.
GivenBefore(n) == {output.matched[j] : j \in 1..(n - 1)}

UnusedInReach(n) ==
    {m \in 1..Len(output.all_images) :
        /\ m \notin GivenBefore(n)
        /\ output.all_images[m].page = input.positions[n].page
        /\ Distance(output.all_images[m], input.positions[n]) < MATCH_CUTOFF}

\* C21: match_images_to_products gives a product an image only when the
\* image is on the page of the product's SKU and their vertical distance is
\* strictly less than 200; a product with no such unused image gets
\* image_path None.
C21_MatchOnPageWithinCutoff ==
    pc = "returned" =>
        \A n \in 1..Len(input.positions) :
            /\ output.image_path[n] > 0 =>
                  /\ output.all_images[output.image_path[n]].page
                       = input.positions[n].page
                  /\ Distance(output.all_images[output.image_path[n]],
                              input.positions[n]) < MATCH_CUTOFF
            /\ UnusedInReach(n) = {} => output.image_path[n] = 0

\* A product exactly MATCH_CUTOFF from the only image of its page gets None.
C21_Witness ==
    /\ pc = "returned"
    /\ Len(input.positions) = 1
    /\ Len(input.images) = 1
    /\ input.images[1].page = input.positions[1].page
    /\ Distance(input.images[1], input.positions[1]) = MATCH_CUTOFF
    /\ output.image_path[1] = 0


\* C28: match_images_to_products never gives one extracted image to two
\* products: any two products whose image_path is not None have different
\* paths, and every path given is an element of image_paths.
C28_ImagesGivenOnce ==
    pc = "returned" =>
        /\ \A n \in 1..Len(input.positions) : \A m \in 1..Len(input.positions) :
              (n # m /\ output.image_path[n] > 0 /\ output.image_path[m] > 0) =>
                  output.image_path[n] # output.image_path[m]
        /\ \A n \in 1..Len(input.positions) :
              output.image_path[n] > 0 => output.image_path[n] \in 1..PathCount(input)

\* Two products at the same spot, two images in reach, one of them unsaved.
C28_Witness ==
    /\ pc = "returned"
    /\ Len(input.positions) = 2
    /\ input.positions[1] = input.positions[2]
    /\ input.missing = 1
    /\ output.matched[1] > 0
    /\ output.matched[2] > output.matched[1]
    /\ output.image_path[1] > 0
    /\ output.image_path[2] = -1


\* ========================================================================
\* pdf_product_importer.parse_pdf_with_layout, the row clustering (L96-114)
\*   input   ys: the y of the text spans of a page, in the order of the
\*           page's blocks
\*   output  rows: the rows, each a sequence of spans [id, y], id being the
\*           span's place in the input
\* ========================================================================
ROW_TOLERANCE == 15
NO_ROW_Y == -100

MaxSpans == 3

SpanYs == {-115, -85, 0, 15, 16, 31}

RowInputs ==
    [function : {"parse_pdf_with_layout"},
     ys : UNION {[1..n -> SpanYs] : n \in 0..MaxSpans}]

InitRows ==
    /\ IdleMain
    /\ IdleImport
    /\ input \in RowInputs
    /\ output = << >>
    /\ pc = "call"

\* L97: text_items.sort(key=lambda x: x["y"]), a stable sort.
RECURSIVE InsertSpan(_, _)
InsertSpan(sorted, span) ==
    IF sorted = << >> THEN <<span>>
    ELSE IF sorted[Len(sorted)].y <= span.y THEN Append(sorted, span)
    ELSE Append(InsertSpan(SubSeq(sorted, 1, Len(sorted) - 1), span),
                sorted[Len(sorted)])

RECURSIVE SortSpans(_)
SortSpans(spans) ==
    IF spans = << >> THEN << >>
    ELSE InsertSpan(SortSpans(SubSeq(spans, 1, Len(spans) - 1)), spans[Len(spans)])

\* L105: abs(item["y"] - current_y) > 15.
StartsRow(y, current_y) ==
    (IF y >= current_y THEN y - current_y ELSE current_y - y) > ROW_TOLERANCE

\* L100-114: the loop from the n-th item on, with its three variables.
RECURSIVE GroupFrom(_, _, _, _, _)
GroupFrom(text_items, n, rows, current_row, current_y) ==
    IF n > Len(text_items)
    THEN IF current_row # << >> THEN Append(rows, current_row) ELSE rows   \* L113-114
    ELSE IF StartsRow(text_items[n].y, current_y)                          \* L105
    THEN GroupFrom(text_items, n + 1,
                   IF current_row # << >> THEN Append(rows, current_row) ELSE rows,
                   <<text_items[n]>>, text_items[n].y)
    ELSE GroupFrom(text_items, n + 1, rows,
                   Append(current_row, text_items[n]), current_y)          \* L111

GroupRows ==
    /\ pc = "call"
    /\ input.function = "parse_pdf_with_layout"
    /\ LET spans == [n \in 1..Len(input.ys) |-> [id |-> n, y |-> input.ys[n]]]
       IN  output' = [rows |-> GroupFrom(SortSpans(spans), 1, << >>, << >>, NO_ROW_Y)]
    /\ pc' = "returned"
    /\ UNCHANGED <<input, raised, runVars, geminiVars, httpVars, clockVars, importVars>>

NextRows == GroupRows

SpecRows == InitRows /\ [][NextRows]_vars

\* The places (row, place in the row) of the spans, in reading order.
RowPlaces ==
    {pl \in (1..Len(output.rows)) \X (1..MaxSpans + 1) : pl[2] <= Len(output.rows[pl[1]])}

SpanAt(pl) == output.rows[pl[1]][pl[2]]

Precedes(a, b) == a[1] < b[1] \/ (a[1] = b[1] /\ a[2] < b[2])

\* C22: the row clustering partitions the spans of a page: every span is in
\* exactly one row, the rows are in non-decreasing y order, two spans of one
\* row differ in y by at most 15, and a span starts a new row exactly when
\* its y exceeds the y of the current row's first span by more than 15.
C22_RowsPartitionSpans ==
    pc = "returned" =>
        /\ \A n \in 1..Len(input.ys) :
              \E pl \in RowPlaces :
                  /\ SpanAt(pl) = [id |-> n, y |-> input.ys[n]]
                  /\ \A other \in RowPlaces : SpanAt(other).id = n => other = pl
        /\ \A pl \in RowPlaces : SpanAt(pl).id \in 1..Len(input.ys)
        /\ \A a \in RowPlaces : \A b \in RowPlaces :
              Precedes(a, b) => SpanAt(a).y <= SpanAt(b).y
        /\ \A a \in RowPlaces : \A b \in RowPlaces :
              a[1] = b[1] => SpanAt(b).y - SpanAt(a).y <= ROW_TOLERANCE
        /\ \A r \in 1..Len(output.rows) : output.rows[r] # << >>
        /\ \A r \in 2..Len(output.rows) :
              output.rows[r][1].y > output.rows[r - 1][1].y + ROW_TOLERANCE


\* ========================================================================
\* ai_variant_detector.fetch_all_products (L141-170)
\*   input   the catalogue: `size` products with the ids first,
\*           first + stride, first + 2 * stride, ...
\*   output  products: the ids fetched so far; last_id;
\*           since_ids: history, the since_id of every request (0: none);
\*           sizes: history, the length of every page received
\* Shopify answers a request with the up to PAGE_LIMIT products of the
\* smallest ids greater than since_id, in ascending id order.
\* ========================================================================
PAGE_LIMIT == 250

MaxSlack == 2

CatalogueSizes ==
    {n + d : n \in {0, PAGE_LIMIT, 2 * PAGE_LIMIT}, d \in (-MaxSlack)..MaxSlack} \cap Nat

FetchInputs ==
    [function : {"fetch_all_products"}, size : CatalogueSizes,
     first : {1, 7}, stride : {1, 3}]

InitFetch ==
    /\ IdleMain
    /\ IdleImport
    /\ input \in FetchInputs
    /\ output = [products |-> << >>, last_id |-> 0, since_ids |-> << >>, sizes |-> << >>]
    /\ pc = "call"

\* The id of the j-th product of the catalogue.
IdOf(cat, j) == cat.first + (j - 1) * cat.stride

\* The page Shopify returns for products.json?limit=250&since_id=<since_id>.
ShopifyPage(cat, since_id) ==
    LET skipped == Cardinality({j \in 1..cat.size : IdOf(cat, j) <= since_id})
        rest == cat.size - skipped
    IN  [m \in 1..(IF rest < PAGE_LIMIT THEN rest ELSE PAGE_LIMIT) |->
            IdOf(cat, skipped + m)]

\* L167: the page was the last one.
LastPage_Mutant(batch) == Len(batch) <= PAGE_LIMIT

LastPage(batch) == Len(batch) < PAGE_LIMIT

\* One iteration of `while True` (L149-168).
FetchPage ==
    /\ pc = "call"
    /\ input.function = "fetch_all_products"
    /\ LET batch == ShopifyPage(input, output.last_id)                     \* L150-158
       IN  /\ output' = [products |-> output.products \o batch,            \* L163
                         last_id |-> IF batch = << >> THEN output.last_id
                                     ELSE batch[Len(batch)],                \* L164
                         since_ids |-> Append(output.since_ids, output.last_id),
                         sizes |-> Append(output.sizes, Len(batch))]
           /\ pc' = IF batch = << >> \/ LastPage(batch)                    \* L160, L167
                    THEN "returned" ELSE "call"
    /\ UNCHANGED <<input, raised, runVars, geminiVars, httpVars, clockVars, importVars>>

NextFetch == FetchPage

SpecFetch == InitFetch /\ [][NextFetch]_vars /\ WF_vars(FetchPage)

\* What fetch_all_products has to return: every id of the catalogue, once.
WholeCatalogue == [j \in 1..input.size |-> IdOf(input, j)]

FetchedInOrder ==
    /\ \A n \in 2..Len(output.since_ids) :
          output.since_ids[n - 1] < output.since_ids[n]
    /\ \A n \in 1..(Len(output.sizes) - 1) : output.sizes[n] = PAGE_LIMIT
    /\ pc = "returned" =>
          /\ output.products = WholeCatalogue
          /\ output.sizes[Len(output.sizes)] < PAGE_LIMIT

\* C23: for any finite catalogue served in pages of the up to 250 smallest
\* ids above since_id, fetch_all_products terminates and returns every
\* product exactly once: it asks with strictly increasing since_id and stops
\* at the first page that is empty or shorter than 250.
C23_FetchesWholeCatalogue == []FetchedInOrder /\ <>(pc = "returned")

C23_Witness ==
    /\ pc = "returned"
    /\ input.size = 2 * PAGE_LIMIT
    /\ input.stride = 3
    /\ output.sizes = <<PAGE_LIMIT, PAGE_LIMIT, 0>>
    /\ Len(output.products) = 2 * PAGE_LIMIT


\* ========================================================================
\* fix_cloud_yhs_images.get_all_cloud_yhs_products (L32-64)
\*   input   the store's answer: for each page its status, the number of
\*           products in its body and its Link header
\*   output  products: <<page, n>> for the n-th product of a page;
\*           page_url: the page `url` points at, 0 for None;
\*           visited: history, the pages requested
\* A Link header is a sequence of links [url, rel]; Shopify sends
\* rel="previous" before rel="next".
\* ========================================================================
HTTP_OK == 200

MaxPages == 3

MaxPerPage == 1

PageStatuses == {HTTP_OK, 429}

CloudInputs ==
    UNION {[function : {"get_all_cloud_yhs_products"}, page_count : {n},
            statuses : [1..n -> PageStatuses],
            sizes : [1..n -> 0..MaxPerPage]] : n \in 1..MaxPages}

InitCloud ==
    /\ IdleMain
    /\ IdleImport
    /\ input \in CloudInputs
    /\ output = [products |-> << >>, page_url |-> 1, visited |-> << >>]
    /\ pc = "call"

\* response.headers.get('Link', '') of the answer for page n.
LinkHeader(n, page_count) ==
    (IF n > 1 THEN <<[url |-> n - 1, rel |-> "previous"]>> ELSE << >>)
    \o (IF n < page_count THEN <<[url |-> n + 1, rel |-> "next"]>> ELSE << >>)

\* data.get('products', []) of the answer for page n.
PageProducts(n, size) == [m \in 1..size |-> <<n, m>>]

\* L53-60: the URL of the first link with rel="next", None without one.
NextUrl_Mutant(header) == IF header = << >> THEN 0 ELSE header[1].url

NextUrl(header) ==
    IF \E n \in 1..Len(header) : header[n].rel = "next"
    THEN header[CHOOSE n \in 1..Len(header) :
                   /\ header[n].rel = "next"
                   /\ \A m \in 1..(n - 1) : header[m].rel # "next"].url
    ELSE 0

\* One iteration of `while url` (L42-62).
CloudPage ==
    /\ pc = "call"
    /\ input.function = "get_all_cloud_yhs_products"
    /\ LET n == output.page_url
           visited == Append(output.visited, n)                             \* L43
       IN  IF input.statuses[n] # HTTP_OK                                     \* L44-46
           THEN /\ output' = [output EXCEPT !.visited = visited]
                /\ pc' = "returned"
           ELSE LET next == NextUrl(LinkHeader(n, input.page_count))          \* L52-60
                IN  /\ output' = [products |-> output.products
                                       \o PageProducts(n, input.sizes[n]),    \* L49
                                  page_url |-> next,
                                  visited |-> visited]
                    /\ pc' = IF next = 0 THEN "returned" ELSE "call"          \* L42
    /\ UNCHANGED <<input, raised, runVars, geminiVars, httpVars, clockVars, importVars>>

NextCloud == CloudPage

SpecCloud == InitCloud /\ [][NextCloud]_vars

RECURSIVE PagesUpTo(_, _)
\* The products of pages 1..n in page order.
PagesUpTo(n, sizes) ==
    IF n = 0 THEN << >>
    ELSE PagesUpTo(n - 1, sizes) \o PageProducts(n, sizes[n])

AllCloudProducts == PagesUpTo(input.page_count, input.sizes)

\* C24: get_all_cloud_yhs_products follows the rel="next" link of each
\* response until one has none and returns the products of all pages in
\* page order; it returns fewer only when a response had a status other
\* than 200.
C24_FollowsNextLinks ==
    /\ \A n \in 1..Len(output.visited) : output.visited[n] = n
    /\ pc = "returned" /\ input.function = "get_all_cloud_yhs_products" =>
          /\ output.products # AllCloudProducts =>
                \E n \in 1..Len(output.visited) :
                    input.statuses[output.visited[n]] # HTTP_OK
          /\ (\A n \in 1..input.page_count : input.statuses[n] = HTTP_OK) =>
                /\ output.products = AllCloudProducts
                /\ Len(output.visited) = input.page_count

C24_Witness ==
    /\ pc = "returned"
    /\ input.function = "get_all_cloud_yhs_products"
    /\ input.page_count = MaxPages
    /\ \A n \in 1..input.page_count : input.sizes[n] = 1
    /\ output.products = AllCloudProducts
    /\ Len(output.products) = MaxPages


\* ========================================================================
\* fetch_and_score_wyn.score_pdp (L33-106)
\*   input   the signals score_pdp reads off the product
\*   output  the score returned
\* ========================================================================
MIN_SCORE == 0

MAX_SCORE == 100

WordCounts == {0, 14, 15, 40, 49, 80, 150}

TdCounts == {0, 10, 11}

VariantSignals ==
    {[count |-> 0, named |-> FALSE, all_priced |-> TRUE]}
    \cup [count : {1}, named : BOOLEAN, all_priced : BOOLEAN]

\* A product without words in its body has no keyword hit and no spec word.
PdpSignals ==
    {s \in [function : {"score_pdp"},
            word_count : WordCounts,
            has_headings : BOOLEAN, has_lists : BOOLEAN, has_paragraphs : BOOLEAN,
            dollar_title : BOOLEAN, title_in_range : BOOLEAN,
            keyword_hits : {0, 1, 3},
            td_count : TdCounts,
            has_specs : BOOLEAN,
            image_count : 0..3,
            variants : VariantSignals,
            has_product_type : BOOLEAN,
            tag_count : {0, 1, 3}] :
        s.word_count = 0 => (s.keyword_hits = 0 /\ ~s.has_specs)}

InitScore ==
    /\ IdleMain
    /\ IdleImport
    /\ input \in PdpSignals
    /\ output = -1
    /\ pc = "call"

\* L106: max(0, min(100, score)).
Clamp_Mutant(score) == score

Clamp(score) ==
    LET low == IF score > MAX_SCORE THEN MAX_SCORE ELSE score
    IN  IF low < MIN_SCORE THEN MIN_SCORE ELSE low

\* L35-104: the sum of bonuses and penalties before clamping.
RawScore(s) ==
    (IF s.word_count >= 150 THEN 30                                        \* L42-49
     ELSE IF s.word_count >= 80 THEN 20
     ELSE IF s.word_count >= 40 THEN 10
     ELSE IF s.word_count >= 15 THEN 5 ELSE 0)
  + (IF s.has_headings THEN 8 ELSE 0)                                      \* L55
  + (IF s.has_lists THEN 7 ELSE 0)                                         \* L56
  + (IF s.has_paragraphs THEN 5 ELSE 0)                                    \* L57
  - (IF s.dollar_title THEN 5 ELSE 0)                                      \* L61-62
  + (IF s.title_in_range THEN 5 ELSE 0)                                    \* L63-64
  + (IF s.keyword_hits >= 3 THEN 5
     ELSE IF s.keyword_hits >= 1 THEN 3 ELSE 0)                            \* L68-71
  - (IF s.td_count > 10 /\ s.word_count < 50 THEN 5 ELSE 0)                \* L72-74
  + (IF s.has_specs THEN 5 ELSE 0)                                         \* L75-76
  + (IF s.image_count >= 3 THEN 15
     ELSE IF s.image_count >= 2 THEN 10
     ELSE IF s.image_count >= 1 THEN 5 ELSE 0)                             \* L79-85
  + (IF s.variants.count >= 1 /\ s.variants.named THEN 5 ELSE 0)           \* L89-92
  + (IF s.variants.count >= 1 /\ s.variants.all_priced THEN 5 ELSE 0)      \* L93-94
  + (IF s.has_product_type THEN 5 ELSE 0)                                  \* L97-98
  + (IF s.tag_count >= 3 THEN 5
     ELSE IF s.tag_count >= 1 THEN 3 ELSE 0)                               \* L101-104

score_pdp(s) == Clamp(RawScore(s))

ScorePdp ==
    /\ pc = "call"
    /\ input.function = "score_pdp"
    /\ output' = score_pdp(input)
    /\ pc' = "returned"
    /\ UNCHANGED <<input, raised, runVars, geminiVars, httpVars, clockVars, importVars>>

NextScore == ScorePdp

SpecScore == InitScore /\ [][NextScore]_vars

\* C25: score_pdp returns an integer between 0 and 100 inclusive for every
\* combination of signals, both penalties without any bonus included.
C25_ScoreInRange ==
    pc = "returned" /\ input.function = "score_pdp" =>
        output \in MIN_SCORE..MAX_SCORE

C25_Witness ==
    /\ pc = "returned"
    /\ input.function = "score_pdp"
    /\ input.dollar_title
    /\ input.td_count > 10 /\ input.word_count < 50
    /\ RawScore(input) = -10
    /\ output = 0


\* ========================================================================
\* hide_wholesale_and_clean_titles.clean_dollar_from_title (L40-58)
\*   input   the title, a sequence of characters
\*   output  the cleaned title
\* ========================================================================
MaxTitleLen == 5

TitleDigits == {"1"}

\* [\d.,]
AmountChars == TitleDigits \cup {","}

\* \s
TitleSpaces == {" "}

\* [\s\-–—]
TitleSeparators == TitleSpaces \cup {"-"}

TitleChars == {"$", "a"} \cup AmountChars \cup TitleSeparators

Titles == UNION {[1..n -> TitleChars] : n \in 0..MaxTitleLen}

InitClean ==
    /\ IdleMain
    /\ IdleImport
    /\ input \in [function : {"clean_dollar_from_title"}, title : Titles]
    /\ output = << >>
    /\ pc = "call"

\* The first position from n on whose character is outside `class`
\* (Len(t) + 1 when there is none): where a greedy [class]* begun at n ends.
SkipTo(t, n, class) ==
    CHOOSE m \in n..(Len(t) + 1) :
        /\ m = Len(t) + 1 \/ t[m] \notin class
        /\ \A q \in n..(m - 1) : t[q] \in class

RECURSIVE RemoveAmountsFrom(_, _)
\* L55: re.sub(r'\$\d+[\d.,]*\s*', '', title), scanning from position n.
RemoveAmountsFrom(t, n) ==
    IF n > Len(t) THEN << >>
    ELSE IF t[n] = "$" /\ n < Len(t) /\ t[n + 1] \in TitleDigits
    THEN RemoveAmountsFrom(t, SkipTo(t, SkipTo(t, n + 1, AmountChars), TitleSpaces))
    ELSE <<t[n]>> \o RemoveAmountsFrom(t, n + 1)

\* t without its leading and trailing characters of `class`:
\* .strip() (L55) and re.sub(r'^[...]+|[...]+$', '', cleaned) (L56).
StripChars(t, class) ==
    LET first == SkipTo(t, 1, class)
    IN  IF first > Len(t) THEN << >>
        ELSE LET last == CHOOSE m \in first..Len(t) :
                             /\ t[m] \notin class
                             /\ \A q \in (m + 1)..Len(t) : t[q] \in class
             IN  SubSeq(t, first, last)

RECURSIVE CollapseFrom(_, _)
\* L57: re.sub(r'\s{2,}', ' ', cleaned), scanning from position n.
CollapseFrom(t, n) ==
    IF n > Len(t) THEN << >>
    ELSE IF t[n] \in TitleSpaces /\ n < Len(t) /\ t[n + 1] \in TitleSpaces
    THEN <<" ">> \o CollapseFrom(t, SkipTo(t, n, TitleSpaces))
    ELSE <<t[n]>> \o CollapseFrom(t, n + 1)

clean_dollar_from_title(title) ==
    LET removed == StripChars(RemoveAmountsFrom(title, 1), TitleSpaces)      \* L55
        trimmed == StripChars(removed, TitleSeparators)                      \* L56
    IN  CollapseFrom(trimmed, 1)                                             \* L57

CleanTitle ==
    /\ pc = "call"
    /\ input.function = "clean_dollar_from_title"
    /\ output' = clean_dollar_from_title(input.title)
    /\ pc' = "returned"
    /\ UNCHANGED <<input, raised, runVars, geminiVars, httpVars, clockVars, importVars>>

NextClean == CleanTitle

SpecClean == InitClean /\ [][NextClean]_vars

HasDollarAmount(t) ==
    \E n \in 1..(Len(t) - 1) : t[n] = "$" /\ t[n + 1] \in TitleDigits

Trimmed(t) ==
    t # << >> => t[1] \notin TitleSeparators /\ t[Len(t)] \notin TitleSeparators

HasSpaceRun(t) ==
    \E n \in 1..(Len(t) - 1) : t[n] \in TitleSpaces /\ t[n + 1] \in TitleSpaces

\* C26: for every title the cleaned title holds no '$' immediately followed
\* by a digit, has no leading or trailing whitespace or dash and no run of
\* two or more whitespace characters, and cleaning it again changes nothing.
C26_CleanTitleIsClean ==
    pc = "returned" /\ input.function = "clean_dollar_from_title" =>
        /\ ~HasDollarAmount(output)
        /\ Trimmed(output)
        /\ ~HasSpaceRun(output)
        /\ clean_dollar_from_title(output) = output


\* ========================================================================
\* The tag generators of the importers:
\*   cloud_yhs_importer.generate_product_tags (L171-216)
\*   product_listing_importer.generate_tags (L260-305)
\*   pdf_product_importer.generate_tags (L360-383)
\*   input   the product: name and specs as sequences of characters, sku
\*   output  the tags in the order ", ".join(tags) writes them, the tag
\*           "key:value" as <<key, value>>
\* ========================================================================
VENDOR_NAME == "Cloud YHS"

MaxSpecLen == 5

SpecChars == {"g", "G", "l", "a", "s", "x"}

SpecStrings == UNION {[1..n -> SpecChars] : n \in 0..MaxSpecLen}

ProductNames == {<<"x">>, <<"G", "l", "a", "s", "s">>, <<"W", "a", "t", "e", "r", " ", "P", "i", "p", "e">>}

TagGenerators == {"generate_product_tags", "listing_generate_tags", "pdf_generate_tags"}

TagInputs ==
    [function : TagGenerators, name : ProductNames, specs : SpecStrings, sku : {"CY-1"}]

InitTags ==
    /\ IdleMain
    /\ IdleImport
    /\ input \in TagInputs
    /\ output = << >>
    /\ pc = "call"

\* str.lower() of one character.
LowerChar_Mutant(c) == c

LowerChar(c) ==
    CASE c = "G" -> "g"
      [] c = "W" -> "w"
      [] c = "P" -> "p"
      [] OTHER -> c

\* str.lower()
Lower(t) == [n \in 1..Len(t) |-> LowerChar(t[n])]

\* word in t
Contains(t, word) ==
    \E n \in 1..(Len(t) - Len(word) + 1) : SubSeq(t, n, n + Len(word) - 1) = word

\* cloud_yhs_importer L196-214
CloudFamilyTags(name) ==
    IF Contains(name, <<"w", "a", "t", "e", "r", " ", "p", "i", "p", "e">>)
    THEN <<<<"pillar", "smokeshop-device">>, <<"family", "glass-bong">>, <<"use", "flower-smoking">>>>
    ELSE IF Contains(name, <<"h", "a", "n", "d", " ", "p", "i", "p", "e">>) \/ Contains(name, <<"g", "l", "a", "s", "s", " ", "p", "i", "p", "e">>)
    THEN <<<<"pillar", "smokeshop-device">>, <<"family", "spoon-pipe">>, <<"use", "flower-smoking">>>>
    ELSE IF Contains(name, <<"b", "u", "b", "b", "l", "e", "r">>)
    THEN <<<<"pillar", "smokeshop-device">>, <<"family", "bubbler">>, <<"use", "flower-smoking">>>>
    ELSE IF Contains(name, <<"n", "e", "c", "t", "a", "r", " ", "c", "o", "l", "l", "e", "c", "t", "o", "r">>)
    THEN <<<<"pillar", "smokeshop-device">>, <<"family", "nectar-collector">>, <<"use", "dabbing">>>>
    ELSE IF Contains(name, <<"d", "a", "b", " ", "t", "o", "o", "l">>)
    THEN <<<<"pillar", "accessory">>, <<"family", "dab-tool">>, <<"use", "dabbing">>>>
    ELSE IF Contains(name, <<"r", "o", "a", "c", "h", " ", "c", "l", "i", "p">>)
    THEN <<<<"pillar", "accessory">>, <<"family", "dab-tool">>, <<"use", "flower-smoking">>>>
    ELSE IF Contains(name, <<"b", "a", "t", "t", "e", "r", "y">>) \/ Contains(name, <<"c", "b", "d">>)
    THEN <<<<"pillar", "smokeshop-device">>, <<"family", "vape-battery">>, <<"use", "vaping">>>>
    ELSE IF Contains(name, <<"b", "o", "w", "l">>)
    THEN <<<<"pillar", "accessory">>, <<"family", "flower-bowl">>, <<"use", "flower-smoking">>>>
    ELSE IF Contains(name, <<"a", "s", "h", "t", "r", "a", "y">>) \/ Contains(name, <<"j", "a", "r">>)
    THEN <<<<"pillar", "accessory">>, <<"family", "storage-accessory">>, <<"use", "storage">>>>
    ELSE << >>

\* product_listing_importer L280-297
ListingFamilyTags(name) ==
    IF Contains(name, <<"w", "a", "t", "e", "r", " ", "p", "i", "p", "e">>) \/ Contains(name, <<"b", "o", "n", "g">>)
    THEN <<<<"pillar", "smokeshop-device">>, <<"family", "glass-bong">>, <<"use", "flower-smoking">>>>
    ELSE IF Contains(name, <<"h", "a", "n", "d", " ", "p", "i", "p", "e">>) \/ Contains(name, <<"g", "l", "a", "s", "s", " ", "p", "i", "p", "e">>)
    THEN <<<<"pillar", "smokeshop-device">>, <<"family", "spoon-pipe">>, <<"use", "flower-smoking">>>>
    ELSE IF Contains(name, <<"b", "u", "b", "b", "l", "e", "r">>)
    THEN <<<<"pillar", "smokeshop-device">>, <<"family", "bubbler">>, <<"use", "flower-smoking">>>>
    ELSE IF Contains(name, <<"n", "e", "c", "t", "a", "r", " ", "c", "o", "l", "l", "e", "c", "t", "o", "r">>)
    THEN <<<<"pillar", "smokeshop-device">>, <<"family", "nectar-collector">>, <<"use", "dabbing">>>>
    ELSE IF Contains(name, <<"d", "a", "b", " ", "t", "o", "o", "l">>)
    THEN <<<<"pillar", "accessory">>, <<"family", "dab-tool">>, <<"use", "dabbing">>>>
    ELSE IF Contains(name, <<"r", "o", "a", "c", "h", " ", "c", "l", "i", "p">>)
    THEN <<<<"pillar", "accessory">>, <<"family", "dab-tool">>, <<"use", "flower-smoking">>>>
    ELSE IF Contains(name, <<"b", "a", "t", "t", "e", "r", "y">>) \/ Contains(name, <<"c", "b", "d">>)
    THEN <<<<"pillar", "smokeshop-device">>, <<"family", "vape-battery">>, <<"use", "vaping">>>>
    ELSE IF Contains(name, <<"b", "o", "w", "l">>)
    THEN <<<<"pillar", "accessory">>, <<"family", "flower-bowl">>, <<"use", "flower-smoking">>>>
    ELSE IF Contains(name, <<"a", "s", "h", "t", "r", "a", "y">>) \/ Contains(name, <<"j", "a", "r">>)
    THEN <<<<"pillar", "accessory">>, <<"family", "storage-accessory">>, <<"use", "storage">>>>
    ELSE << >>

\* product_listing_importer L299-303
ListingStyleTags(name) ==
       (IF Contains(name, <<"a", "n", "i", "m", "a", "l">>) \/ Contains(name, <<"c", "a", "t">>) \/ Contains(name, <<"d", "o", "g">>) \/ Contains(name, <<"s", "h", "a", "r", "k">>) \/ Contains(name, <<"p", "e", "n", "g", "u", "i", "n">>) \/ Contains(name, <<"d", "o", "l", "p", "h", "i", "n">>) \/ Contains(name, <<"h", "u", "s", "k", "y">>) \/ Contains(name, <<"m", "o", "u", "s", "e">>) THEN <<<<"style", "animal">>>> ELSE << >>)
    \o (IF Contains(name, <<"z", "o", "m", "b", "i", "e">>) \/ Contains(name, <<"a", "l", "i", "e", "n">>) \/ Contains(name, <<"s", "k", "u", "l", "l">>) \/ Contains(name, <<"s", "k", "e", "l", "e", "t", "o", "n">>) THEN <<<<"style", "heady">>>> ELSE << >>)
    \o (IF Contains(name, <<"s", "o", "c", "c", "e", "r">>) \/ Contains(name, <<"f", "o", "o", "t", "b", "a", "l", "l">>) \/ Contains(name, <<"s", "p", "o", "r", "t">>) THEN <<<<"style", "sports">>>> ELSE << >>)

\* pdf_product_importer L370-381
PdfFamilyTags(name) ==
    IF Contains(name, <<"w", "a", "t", "e", "r", " ", "p", "i", "p", "e">>) \/ Contains(name, <<"b", "o", "n", "g">>)
    THEN <<<<"pillar", "smokeshop-device">>, <<"family", "glass-bong">>, <<"use", "flower-smoking">>>>
    ELSE IF Contains(name, <<"h", "a", "n", "d", " ", "p", "i", "p", "e">>)
    THEN <<<<"pillar", "smokeshop-device">>, <<"family", "spoon-pipe">>, <<"use", "flower-smoking">>>>
    ELSE IF Contains(name, <<"n", "e", "c", "t", "a", "r", " ", "c", "o", "l", "l", "e", "c", "t", "o", "r">>)
    THEN <<<<"pillar", "smokeshop-device">>, <<"family", "nectar-collector">>, <<"use", "dabbing">>>>
    ELSE IF Contains(name, <<"b", "a", "t", "t", "e", "r", "y">>) \/ Contains(name, <<"c", "b", "d">>)
    THEN <<<<"pillar", "smokeshop-device">>, <<"family", "vape-battery">>, <<"use", "vaping">>>>
    ELSE IF Contains(name, <<"b", "o", "w", "l">>)
    THEN <<<<"pillar", "accessory">>, <<"family", "flower-bowl">>, <<"use", "flower-smoking">>>>
    ELSE IF Contains(name, <<"d", "a", "b", " ", "t", "o", "o", "l">>)
    THEN <<<<"pillar", "accessory">>, <<"family", "dab-tool">>, <<"use", "dabbing">>>>
    ELSE << >>

\* cloud_yhs_importer.generate_product_tags
generate_product_tags(p) ==
    LET name == Lower(p.name)                                                \* L181
        specs == Lower(p.specs)                                              \* L182
    IN     <<<<"vendor", VENDOR_NAME>>, <<"sku", p.sku>>>>                   \* L184
        \o (IF Contains(specs, <<"p", "v", "c">>) THEN <<<<"material", "pvc">>>> ELSE << >>)
        \o (IF Contains(specs, <<"g", "l", "a", "s", "s">>) \/ Contains(name, <<"g", "l", "a", "s", "s">>) THEN <<<<"material", "glass">>>> ELSE << >>)
        \o (IF Contains(specs, <<"s", "i", "l", "i", "c", "o", "n", "e">>) \/ Contains(name, <<"s", "i", "l", "i", "c", "o", "n", "e">>) THEN <<<<"material", "silicone">>>> ELSE << >>)
        \o (IF Contains(specs, <<"p", "l", "a", "s", "t", "i", "c">>) \/ Contains(name, <<"p", "l", "a", "s", "t", "i", "c">>) THEN <<<<"material", "plastic">>>> ELSE << >>)
        \o CloudFamilyTags(name)

\* product_listing_importer.generate_tags
listing_generate_tags(p) ==
    LET name == Lower(p.name)                                                \* L262
        specs == Lower(p.specs)                                              \* L263
    IN     <<<<"vendor", VENDOR_NAME>>, <<"sku", p.sku>>>>                   \* L265
        \o (IF Contains(specs, <<"p", "v", "c">>) THEN <<<<"material", "pvc">>>> ELSE << >>)
        \o (IF Contains(specs, <<"g", "l", "a", "s", "s">>) \/ Contains(name, <<"g", "l", "a", "s", "s">>) THEN <<<<"material", "glass">>>> ELSE << >>)
        \o (IF Contains(specs, <<"s", "i", "l", "i", "c", "o", "n", "e">>) \/ Contains(name, <<"s", "i", "l", "i", "c", "o", "n", "e">>) THEN <<<<"material", "silicone">>>> ELSE << >>)
        \o (IF Contains(specs, <<"p", "l", "a", "s", "t", "i", "c">>) \/ Contains(name, <<"p", "l", "a", "s", "t", "i", "c">>) THEN <<<<"material", "plastic">>>> ELSE << >>)
        \o ListingFamilyTags(name)
        \o ListingStyleTags(name)

\* pdf_product_importer.generate_tags
pdf_generate_tags(p) ==
    LET name == Lower(p.name)                                                \* L362
        specs == Lower(p.specs)                                              \* L363
    IN     <<<<"vendor", VENDOR_NAME>>, <<"sku", p.sku>>>>                   \* L364
        \o (IF Contains(specs, <<"p", "v", "c">>) THEN <<<<"material", "pvc">>>> ELSE << >>)
        \o (IF Contains(specs, <<"g", "l", "a", "s", "s">>) \/ Contains(name, <<"g", "l", "a", "s", "s">>) THEN <<<<"material", "glass">>>> ELSE << >>)
        \o (IF Contains(specs, <<"s", "i", "l", "i", "c", "o", "n", "e">>) \/ Contains(name, <<"s", "i", "l", "i", "c", "o", "n", "e">>) THEN <<<<"material", "silicone">>>> ELSE << >>)
        \o PdfFamilyTags(name)

CloudTags ==
    /\ pc = "call"
    /\ input.function = "generate_product_tags"
    /\ output' = generate_product_tags(input)
    /\ pc' = "returned"
    /\ UNCHANGED <<input, raised, runVars, geminiVars, httpVars, clockVars, importVars>>

ListingTags ==
    /\ pc = "call"
    /\ input.function = "listing_generate_tags"
    /\ output' = listing_generate_tags(input)
    /\ pc' = "returned"
    /\ UNCHANGED <<input, raised, runVars, geminiVars, httpVars, clockVars, importVars>>

PdfTags ==
    /\ pc = "call"
    /\ input.function = "pdf_generate_tags"
    /\ output' = pdf_generate_tags(input)
    /\ pc' = "returned"
    /\ UNCHANGED <<input, raised, runVars, geminiVars, httpVars, clockVars, importVars>>

NextTags == CloudTags \/ ListingTags \/ PdfTags

SpecTags == InitTags /\ [][NextTags]_vars

\* 'glass' in the specs, whatever the case of its letters.
SpecsSayGlass ==
    \E n \in 1..(Len(input.specs) - 4) :
        /\ input.specs[n] \in {"g", "G"}
        /\ SubSeq(input.specs, n + 1, n + 4) = <<"l", "a", "s", "s">>

\* C27: each of the three tag generators returns a string that begins with
\* 'vendor:Cloud YHS' followed by 'sku:<sku>', and that holds the tag
\* 'material:glass' when the specs contain 'glass' in any letter case.
C27_GlassAndVendorTags ==
    pc = "returned" /\ input.function \in TagGenerators =>
        /\ Len(output) >= 2
        /\ output[1] = <<"vendor", "Cloud YHS">>
        /\ output[2] = <<"sku", input.sku>>
        /\ SpecsSayGlass => \E n \in 1..Len(output) : output[n] = <<"material", "glass">>

C27_Witness ==
    /\ pc = "returned"
    /\ input.function = "pdf_generate_tags"
    /\ input.specs = <<"G", "l", "a", "s", "s">>
    /\ input.name = <<"x">>
    /\ output = <<<<"vendor", "Cloud YHS">>, <<"sku", "CY-1">>, <<"material", "glass">>>>

====
